---- MODULE Spec2Model ----
(***************************************************************************)
(* Carapace MCP server: the SecurityEngine (rotating verification key,     *)
(* ordered rule evaluation, daily spend tracking) and the tool handlers    *)
(* that drive it.                                                          *)
(*                                                                         *)
(* JavaScript strings that the code lower-cases or searches are sequences  *)
(* of one-character strings; amounts are whole dollars.                    *)
(***************************************************************************)
EXTENDS Integers, Sequences, FiniteSets, TLC

VARIABLES
    now,                  \* Date.now(), milliseconds since the epoch
    secret,               \* the signing secret, as the keyed digest it induces
    rotationMinutes,      \* SecurityEngine.rotationMinutes
    config,               \* the loaded configuration tree (read-only to the tools)
    dailySpendUsed,       \* SecurityEngine.dailySpendUsed
    dailySpendResetDate,  \* SecurityEngine.dailySpendResetDate
    spentToday,           \* history: total passed to recordSpend on the current calendar date
    agentKey,             \* the key the agent holds from the last issuance, and its window
    actions,              \* the rows of the actions table of the log database, in insertion order
    db,                   \* LogStore.db is open (initialize() has run)
    reviews,              \* the rows of the reviews table, in insertion order
    currentDriftLevel,    \* AnchorEngine.currentDriftLevel
    lastRefresh,          \* AnchorEngine.lastRefresh, NoRefresh while null
    insightsFile,         \* the lines of ~/.carapace/insights.md
    ret                   \* the last operation with its arguments and its result

vars == <<now, secret, rotationMinutes, config, dailySpendUsed,
          dailySpendResetDate, spentToday, agentKey, actions, db, reviews,
          currentDriftLevel, lastRefresh, insightsFile, ret>>

(***************************************************************************)
(* Bounds                                                                  *)
(***************************************************************************)
MaxTicks == 3        \* the clock advances at most this many half days
NumKeys == 2         \* size of the space of truncated digests
MaxRecorded == 260   \* recordSpend is not called once a date's total would pass this
MaxCustomRules == 2  \* longest list of custom rules
MaxHistory == 2      \* rows the actions table holds before the tools stop logging
MaxPaired == 5       \* rows of a history of verified purchases
MaxSaved == 1        \* rows the reviews table holds before saveReview stops
MaxWrites == 11      \* longest run of writes to the insights file
MaxReviewed == 10    \* longest action history that is reviewed

(***************************************************************************)
(* Time                                                                    *)
(***************************************************************************)
TickMs == 12 * 60 * 60 * 1000

DayMs == 24 * 60 * 60 * 1000

RotationChoices == {720, 1440}

Max(a, b) == IF a > b THEN a ELSE b

Last(seq) == seq[Len(seq)]

Range(seq) == {seq[i] : i \in 1 .. Len(seq)}

\* new Date().toISOString().split("T")[0]: the UTC calendar date, as a day number
TodayAt(t) == t \div DayMs

Today == TodayAt(now)

WindowIndexAt(t) == t \div (rotationMinutes * 60 * 1000)

getCurrentWindowIndex == WindowIndexAt(now)

MinRotationMs == 720 * 60 * 1000

Windows == -1 .. ((MaxTicks * TickMs) \div MinRotationMs)

KeySpace == 1 .. NumKeys

\* every keyed digest a secret can induce on the window indexes, collisions included
Secrets == [Windows -> KeySpace]

(***************************************************************************)
(* Rotating key (security.js 78-91, 306-313)                               *)
(***************************************************************************)
NoKey == 0

\* HMAC-SHA256(secret, String(windowIndex)), first 16 hex characters
computeKey(windowIndex) == secret[windowIndex]

\* the key of the window before the current one is handed out
generateKey_PreviousWindow == computeKey(getCurrentWindowIndex - 1)

generateKey == computeKey(getCurrentWindowIndex)

\* the grace period forgotten: only the current window's key is accepted
validateKey_NoGrace(key) == key = computeKey(getCurrentWindowIndex)

validateKey(key) ==
    LET currentWindow == getCurrentWindowIndex
        currentKey == computeKey(currentWindow)
        previousKey == computeKey(currentWindow - 1)
    IN  key = currentKey \/ key = previousKey

NoCall == [op |-> "none"]

\* lastRefresh = null
NoRefresh == -1

\* the agent's context before any key was issued to it
NoIssue == [key |-> NoKey, window |-> -1]

\* time passes between two calls
Tick ==
    /\ now + TickMs <= MaxTicks * TickMs
    /\ now' = now + TickMs
    /\ spentToday' = IF TodayAt(now + TickMs) # Today THEN 0 ELSE spentToday
    /\ UNCHANGED <<secret, rotationMinutes, config, dailySpendUsed,
                   dailySpendResetDate, agentKey, actions, ret>>
    /\ UNCHANGED <<db, reviews, currentDriftLevel, lastRefresh, insightsFile>>

GenerateKey ==
    /\ agentKey' = [key |-> generateKey, window |-> getCurrentWindowIndex]
    /\ ret' = [op |-> "generateKey", key |-> generateKey,
               window |-> getCurrentWindowIndex]
    /\ UNCHANGED <<now, secret, rotationMinutes, config, dailySpendUsed,
                   dailySpendResetDate, spentToday, actions>>
    /\ UNCHANGED <<db, reviews, currentDriftLevel, lastRefresh, insightsFile>>

\* the caller presents the key it holds, or any other string
ValidateKey ==
    \E key \in KeySpace :
        /\ ret' = [op |-> "validateKey", key |-> key, valid |-> validateKey(key),
                   held |-> agentKey, window |-> getCurrentWindowIndex]
        /\ UNCHANGED <<now, secret, rotationMinutes, config, dailySpendUsed,
                       dailySpendResetDate, spentToday, agentKey, actions>>
        /\ UNCHANGED <<db, reviews, currentDriftLevel, lastRefresh, insightsFile>>

(***************************************************************************)
(* JavaScript values used by the rule evaluator                            *)
(***************************************************************************)
\* String.prototype.toLowerCase, character by character
LowerChar(c) ==
    CASE c = "B" -> "b"
      [] c = "E" -> "e"
      [] c = "O" -> "o"
      [] c = "A" -> "a"
      [] c = "C" -> "c"
      [] c = "D" -> "d"
      [] c = "F" -> "f"
      [] c = "G" -> "g"
      [] c = "H" -> "h"
      [] c = "I" -> "i"
      [] c = "J" -> "j"
      [] c = "K" -> "k"
      [] c = "L" -> "l"
      [] c = "M" -> "m"
      [] c = "N" -> "n"
      [] c = "P" -> "p"
      [] c = "Q" -> "q"
      [] c = "R" -> "r"
      [] c = "S" -> "s"
      [] c = "T" -> "t"
      [] c = "U" -> "u"
      [] c = "V" -> "v"
      [] c = "W" -> "w"
      [] c = "X" -> "x"
      [] c = "Y" -> "y"
      [] c = "Z" -> "z"
      [] OTHER -> c

toLowerCase(str) == [i \in 1 .. Len(str) |-> LowerChar(str[i])]

\* String.prototype.includes: sub occurs in str as a contiguous run
includes(str, sub) ==
    \E i \in 0 .. (Len(str) - Len(sub)) :
        \A j \in 1 .. Len(sub) : str[i + j] = sub[j]

\* a JavaScript value: a string, a number, undefined
StrV(chars) == [t |-> "string", s |-> chars, n |-> 0]

NumV(n) == [t |-> "number", s |-> <<>>, n |-> n]

UndefinedV == [t |-> "undefined", s |-> <<>>, n |-> 0]

NaNV == [t |-> "NaN", s |-> <<>>, n |-> 0]

DigitChars == <<"0", "1", "2", "3", "4", "5", "6", "7", "8", "9">>

RECURSIVE NatToChars(_)
NatToChars(n) ==
    IF n < 10 THEN <<DigitChars[n + 1]>>
    ELSE NatToChars(n \div 10) \o <<DigitChars[(n % 10) + 1]>>

\* String(v)
ToStringJS(v) ==
    CASE v.t = "string" -> v.s
      [] v.t = "number" -> IF v.n < 0 THEN <<"-">> \o NatToChars(-v.n)
                           ELSE NatToChars(v.n)
      [] v.t = "NaN" -> <<"N", "a", "N">>
      [] OTHER -> <<"u", "n", "d", "e", "f", "i", "n", "e", "d">>

IsDigit(c) == \E d \in 1 .. 10 : DigitChars[d] = c

DigitValue(c) == (CHOOSE d \in 1 .. 10 : DigitChars[d] = c) - 1

RECURSIVE CharsToNat(_)
CharsToNat(str) ==
    IF Len(str) = 0 THEN 0
    ELSE 10 * CharsToNat(SubSeq(str, 1, Len(str) - 1)) + DigitValue(str[Len(str)])

\* Number(v): the empty string is 0, a run of digits (with a sign) its value,
\* any other string and undefined are NaN
ToNumberJS(v) ==
    CASE v.t = "number" -> v
      [] v.t = "string" ->
            IF Len(v.s) = 0 THEN NumV(0)
            ELSE IF \A i \in 1 .. Len(v.s) : IsDigit(v.s[i]) THEN NumV(CharsToNat(v.s))
            ELSE IF /\ Len(v.s) > 1
                    /\ v.s[1] = "-"
                    /\ \A i \in 2 .. Len(v.s) : IsDigit(v.s[i])
                 THEN NumV(-CharsToNat(Tail(v.s)))
            ELSE NaNV
      [] OTHER -> NaNV

\* a > b on two results of Number(): false when either is NaN
GreaterJS(a, b) == a.t = "number" /\ b.t = "number" /\ a.n > b.n

(***************************************************************************)
(* Daily spend state (security.js 282-285, 314-325)                        *)
(***************************************************************************)
\* st is the pair of fields [used |-> dailySpendUsed, resetDate |-> dailySpendResetDate]
\* the rollover moves the date and keeps the total
resetDailySpendIfNeeded_KeepTotal(st, today) == [st EXCEPT !.resetDate = today]

resetDailySpendIfNeeded(st, today) ==
    IF today # st.resetDate THEN [used |-> 0, resetDate |-> today] ELSE st

getDailySpendRemaining(cfg, st, today) ==
    LET st1 == resetDailySpendIfNeeded(st, today)
    IN  [value |-> Max(0, cfg.daily - st1.used), st |-> st1]

recordSpend(st, today, amount) ==
    LET st1 == resetDailySpendIfNeeded(st, today)
    IN  [st1 EXCEPT !.used = st1.used + amount]

(***************************************************************************)
(* checkRules (security.js 96-278)                                         *)
(***************************************************************************)
Reason(kind, text) == [kind |-> kind, text |-> text]

NoReason == Reason("empty", "")

\* the object literal of every return statement of checkRules
Result(cfg, st, today, allowed, requiresConfirmation, reason, rulesChecked) ==
    LET remaining == getDailySpendRemaining(cfg, st, today)
    IN  [allowed |-> allowed,
         requiresConfirmation |-> requiresConfirmation,
         reason |-> reason,
         rulesChecked |-> rulesChecked,
         dailySpendRemaining |-> remaining.value,
         st |-> remaining.st]

\* a rule either returns from checkRules or hands the accumulated locals on
Returned(result) == [done |-> TRUE, result |-> result]

Continue(acc) == [done |-> FALSE, acc |-> acc]

\* the per-action check reads the daily limit
PerActionExceeded_DailyKey(cfg, action) == action.amount > cfg.daily

PerActionExceeded(cfg, action) == action.amount > cfg.perAction

\* the daily check blocks a total that only reaches the limit
DailyExceeded_AtLimit(cfg, st, action) == st.used + action.amount >= cfg.daily

\* the daily check forgets what was spent before
DailyExceeded_IgnoresUsed(cfg, st, action) == action.amount > cfg.daily

DailyExceeded(cfg, st, action) == st.used + action.amount > cfg.daily

\* the warning starts at the threshold itself
WarnExceeded_AtThreshold(cfg, action) == action.amount >= cfg.warnAbove

WarnExceeded(cfg, action) == action.amount > cfg.warnAbove

\* Rule 1: spending limits
SpendingRule(cfg, today, action, acc) ==
    IF action.amount > 0
    THEN LET checked == Append(acc.rulesChecked, "spending_limit")
         IN  IF PerActionExceeded(cfg, action)
             THEN Returned(Result(cfg, acc.st, today, FALSE, FALSE,
                                  Reason("per_action_limit", ""), checked))
             ELSE LET st1 == resetDailySpendIfNeeded(acc.st, today)
                  IN  IF DailyExceeded(cfg, st1, action)
                      THEN Returned(Result(cfg, st1, today, FALSE, FALSE,
                                           Reason("daily_limit", ""), checked))
                      ELSE IF WarnExceeded(cfg, action)
                           THEN Continue([acc EXCEPT !.rulesChecked = checked,
                                                     !.st = st1,
                                                     !.requiresConfirmation = TRUE,
                                                     !.reason = Reason("warn_threshold", "")])
                           ELSE Continue([acc EXCEPT !.rulesChecked = checked,
                                                     !.st = st1])
    ELSE Continue(acc)

CONTACT_TYPES == {"send_message", "send_email"}

DOMAIN_TYPES == {"browse_new_domain", "api_write"}

\* the entries are not lower-cased before the comparison
someIncluded_CaseSensitive(list, targetLower) ==
    \E i \in 1 .. Len(list) : includes(targetLower, list[i])

\* list.some((c) => targetLower.includes(c.toLowerCase()))
someIncluded(list, targetLower) ==
    \E i \in 1 .. Len(list) : includes(targetLower, toLowerCase(list[i]))

\* Rule 2: contact allowlist/blocklist
ContactRule(cfg, today, action, acc) ==
    IF action.action_type \in CONTACT_TYPES
    THEN LET checked == Append(acc.rulesChecked, "contact_rules")
             targetLower == toLowerCase(action.target)
         IN  IF /\ cfg.contacts.mode = "allowlist"
                /\ Len(cfg.contacts.allowed) > 0
                /\ ~someIncluded(cfg.contacts.allowed, targetLower)
             THEN Returned(Result(cfg, acc.st, today, FALSE, FALSE,
                                  Reason("contact_not_allowed", ""), checked))
             ELSE IF someIncluded(cfg.contacts.blocked, targetLower)
                  THEN Returned(Result(cfg, acc.st, today, FALSE, FALSE,
                                       Reason("contact_blocked", ""), checked))
                  ELSE Continue([acc EXCEPT !.rulesChecked = checked])
    ELSE Continue(acc)

\* Rule 3: domain allowlist/blocklist
DomainRule(cfg, today, action, acc) ==
    IF action.action_type \in DOMAIN_TYPES
    THEN LET checked == Append(acc.rulesChecked, "domain_rules")
             targetLower == toLowerCase(action.target)
         IN  IF /\ cfg.domains.mode = "allowlist"
                /\ Len(cfg.domains.allowed) > 0
                /\ ~someIncluded(cfg.domains.allowed, targetLower)
             THEN Returned(Result(cfg, acc.st, today, FALSE, FALSE,
                                  Reason("domain_not_allowed", ""), checked))
             ELSE IF someIncluded(cfg.domains.blocked, targetLower)
                  THEN Returned(Result(cfg, acc.st, today, FALSE, FALSE,
                                       Reason("domain_blocked", ""), checked))
                  ELSE Continue([acc EXCEPT !.rulesChecked = checked])
    ELSE Continue(acc)

\* the block returns the list of rules as it was before this rule was pushed
ActionPermissionRule_StaleList(cfg, today, action, acc) ==
    IF action.action_type \in cfg.blockedActions
    THEN Returned(Result(cfg, acc.st, today, FALSE, FALSE,
                         Reason("action_disabled", ""), acc.rulesChecked))
    ELSE Continue([acc EXCEPT !.rulesChecked =
                                  Append(acc.rulesChecked, "action_permissions")])

\* Rule 4: action type permissions
ActionPermissionRule(cfg, today, action, acc) ==
    LET checked == Append(acc.rulesChecked, "action_permissions")
    IN  IF action.action_type \in cfg.blockedActions
        THEN Returned(Result(cfg, acc.st, today, FALSE, FALSE,
                             Reason("action_disabled", ""), checked))
        ELSE Continue([acc EXCEPT !.rulesChecked = checked])

\* the action types the model draws from the twelve of the verify schema
SEND_EMAIL == <<"s", "e", "n", "d", "_", "e", "m", "a", "i", "l">>

SEND_MESSAGE == <<"s", "e", "n", "d", "_", "m", "e", "s", "s", "a", "g", "e">>

API_WRITE == <<"a", "p", "i", "_", "w", "r", "i", "t", "e">>

BROWSE_NEW_DOMAIN ==
    <<"b", "r", "o", "w", "s", "e", "_", "n", "e", "w", "_", "d", "o", "m", "a", "i", "n">>

MAKE_PURCHASE == <<"m", "a", "k", "e", "_", "p", "u", "r", "c", "h", "a", "s", "e">>

ActionTypeChars(type) ==
    CASE type = "send_email" -> SEND_EMAIL
      [] type = "send_message" -> SEND_MESSAGE
      [] type = "api_write" -> API_WRITE
      [] type = "browse_new_domain" -> BROWSE_NEW_DOMAIN
      [] type = "make_purchase" -> MAKE_PURCHASE

\* action[rule.if.field]
FieldValue(action, field) ==
    CASE field = "action_type" -> StrV(ActionTypeChars(action.action_type))
      [] field = "target" -> StrV(action.target)
      [] field = "amount" -> NumV(action.amount)
      [] field = "description" -> StrV(action.description)
      [] OTHER -> UndefinedV

\* an operator the switch does not know counts as a match
RuleMatches_DefaultTrue(rule, action) ==
    LET fieldValue == FieldValue(action, rule.field)
    IN  CASE rule.operator = "equals" -> fieldValue = rule.value
          [] rule.operator = "contains" ->
                includes(toLowerCase(ToStringJS(fieldValue)),
                         toLowerCase(ToStringJS(rule.value)))
          [] rule.operator = "greater_than" ->
                GreaterJS(ToNumberJS(fieldValue), ToNumberJS(rule.value))
          [] rule.operator = "less_than" ->
                GreaterJS(ToNumberJS(rule.value), ToNumberJS(fieldValue))
          [] OTHER -> TRUE

\* the switch on rule.if.operator
RuleMatches(rule, action) ==
    LET fieldValue == FieldValue(action, rule.field)
    IN  CASE rule.operator = "equals" -> fieldValue = rule.value
          [] rule.operator = "contains" ->
                includes(toLowerCase(ToStringJS(fieldValue)),
                         toLowerCase(ToStringJS(rule.value)))
          [] rule.operator = "greater_than" ->
                GreaterJS(ToNumberJS(fieldValue), ToNumberJS(rule.value))
          [] rule.operator = "less_than" ->
                GreaterJS(ToNumberJS(rule.value), ToNumberJS(fieldValue))
          [] OTHER -> FALSE

\* index of the first rule from i on that matches the action, 0 if none does
RECURSIVE FirstMatch(_, _, _)
FirstMatch(rules, action, i) ==
    IF i > Len(rules) THEN 0
    ELSE IF RuleMatches(rules[i], action) THEN i
    ELSE FirstMatch(rules, action, i + 1)

\* rule.reason || `Blocked by custom rule on ${rule.if.field}.`
BlockReason(rule) ==
    IF rule.reason # "" THEN Reason("custom", rule.reason)
    ELSE Reason("custom_block_default", rule.field)

\* rule.reason || `Custom rule warning on ${rule.if.field}.`
WarnReason(rule) ==
    IF rule.reason # "" THEN Reason("custom", rule.reason)
    ELSE Reason("custom_warn_default", rule.field)

\* the loop ends at the first matching rule, whatever its then
CustomLoop_StopAtFirstMatch(cfg, today, action, i, acc) ==
    LET m == FirstMatch(cfg.customRules, action, i)
    IN  IF m = 0 THEN Continue(acc)
        ELSE IF cfg.customRules[m].then = "block"
             THEN Returned(Result(cfg, acc.st, today, FALSE, FALSE,
                                  IF cfg.customRules[m].reason # ""
                                  THEN Reason("custom", cfg.customRules[m].reason)
                                  ELSE Reason("custom_block_default",
                                              cfg.customRules[m].field),
                                  acc.rulesChecked))
             ELSE IF cfg.customRules[m].then = "warn"
                  THEN Continue([acc EXCEPT
                                    !.requiresConfirmation = TRUE,
                                    !.reason = IF cfg.customRules[m].reason # ""
                                               THEN Reason("custom", cfg.customRules[m].reason)
                                               ELSE Reason("custom_warn_default",
                                                           cfg.customRules[m].field)])
                  ELSE Continue(acc)

\* the return of a block rule hands back the local requiresConfirmation, which
\* an earlier warning has set
RECURSIVE CustomLoop_KeepsWarning(_, _, _, _, _)
CustomLoop_KeepsWarning(cfg, today, action, i, acc) ==
    IF i > Len(cfg.customRules) THEN Continue(acc)
    ELSE LET rule == cfg.customRules[i]
         IN  IF RuleMatches(rule, action)
             THEN IF rule.then = "block"
                  THEN Returned(Result(cfg, acc.st, today, FALSE,
                                       acc.requiresConfirmation,
                                       BlockReason(rule), acc.rulesChecked))
                  ELSE IF rule.then = "warn"
                       THEN CustomLoop_KeepsWarning(cfg, today, action, i + 1,
                                       [acc EXCEPT !.requiresConfirmation = TRUE,
                                                   !.reason = WarnReason(rule)])
                       ELSE CustomLoop_KeepsWarning(cfg, today, action, i + 1, acc)
             ELSE CustomLoop_KeepsWarning(cfg, today, action, i + 1, acc)

\* the for loop over customRules, from rule i on
RECURSIVE CustomLoop(_, _, _, _, _)
CustomLoop(cfg, today, action, i, acc) ==
    IF i > Len(cfg.customRules) THEN Continue(acc)
    ELSE LET rule == cfg.customRules[i]
         IN  IF RuleMatches(rule, action)
             THEN IF rule.then = "block"
                  THEN Returned(Result(cfg, acc.st, today, FALSE, FALSE,
                                       BlockReason(rule), acc.rulesChecked))
                  ELSE IF rule.then = "warn"
                       THEN CustomLoop(cfg, today, action, i + 1,
                                       [acc EXCEPT !.requiresConfirmation = TRUE,
                                                   !.reason = WarnReason(rule)])
                       ELSE CustomLoop(cfg, today, action, i + 1, acc)
             ELSE CustomLoop(cfg, today, action, i + 1, acc)

\* Rule 5: custom rules
CustomRule(cfg, today, action, acc) ==
    IF Len(cfg.customRules) > 0
    THEN CustomLoop(cfg, today, action, 1,
                    [acc EXCEPT !.rulesChecked = Append(acc.rulesChecked, "custom_rules")])
    ELSE Continue(acc)

\* all rules passed
AllPassed(cfg, today, acc) ==
    Result(cfg, acc.st, today, TRUE, acc.requiresConfirmation,
           IF acc.reason = NoReason THEN Reason("permitted", "") ELSE acc.reason,
           acc.rulesChecked)

\* checkRules run on configuration cfg, spend state st and calendar date today
checkRulesIn(cfg, st, today, action) ==
    LET acc0 == [rulesChecked |-> <<>>, requiresConfirmation |-> FALSE,
                 reason |-> NoReason, st |-> st]
        r1 == SpendingRule(cfg, today, action, acc0)
    IN  IF r1.done THEN r1.result
        ELSE LET r2 == ContactRule(cfg, today, action, r1.acc)
             IN  IF r2.done THEN r2.result
                 ELSE LET r3 == DomainRule(cfg, today, action, r2.acc)
                      IN  IF r3.done THEN r3.result
                          ELSE LET r4 == ActionPermissionRule(cfg, today, action, r3.acc)
                               IN  IF r4.done THEN r4.result
                                   ELSE LET r5 == CustomRule(cfg, today, action, r4.acc)
                                        IN  IF r5.done THEN r5.result
                                            ELSE AllPassed(cfg, today, r5.acc)

SpendState == [used |-> dailySpendUsed, resetDate |-> dailySpendResetDate]

checkRules(action) == checkRulesIn(config, SpendState, Today, action)

(***************************************************************************)
(* Inputs                                                                  *)
(***************************************************************************)
ActionTypes == {"send_email", "send_message", "api_write", "browse_new_domain",
                "make_purchase"}

Bob == <<"B", "o", "b">>

Eve == <<"e", "v", "e">>

Obe == <<"o", "b", "e">>

Targets == {Bob, Eve, Obe}

Amounts == {0, 10, 20, 30, 50, 60}

Pay == <<"p", "a", "y">>

Actions ==
    [action_type : ActionTypes, target : Targets, amount : Amounts, description : {Pay}]

\* the built-in defaults of the three spending lookups, and a configuration
\* whose per-action limit is above its daily limit
LimitChoices ==
    {[perAction |-> 50, daily |-> 200, warnAbove |-> 20],
     [perAction |-> 60, daily |-> 40, warnAbove |-> 10]}

ListChoices ==
    [mode : {"blocklist", "allowlist"},
     allowed : {<<>>, <<<<"b", "O", "b">>>>},
     blocked : {<<>>, <<<<"O", "B">>>>}]

NoLists == [mode |-> "blocklist", allowed |-> <<>>, blocked |-> <<>>]

RuleBlockTarget ==
    [field |-> "target", operator |-> "contains", value |-> StrV(<<"E", "v">>),
     then |-> "block", reason |-> "no mail to eve"]

RuleWarnAmount ==
    [field |-> "amount", operator |-> "greater_than", value |-> StrV(<<"1", "0">>),
     then |-> "warn", reason |-> ""]

RuleBlockType ==
    [field |-> "action_type", operator |-> "equals", value |-> StrV(API_WRITE),
     then |-> "block", reason |-> ""]

RuleWarnSmall ==
    [field |-> "amount", operator |-> "less_than", value |-> NumV(30),
     then |-> "warn", reason |-> "small amount"]

RuleUnknownOperator ==
    [field |-> "target", operator |-> "not_contains", value |-> StrV(<<"b">>),
     then |-> "block", reason |-> "malformed"]

RulePool == {RuleBlockTarget, RuleWarnAmount, RuleBlockType, RuleWarnSmall,
             RuleUnknownOperator}

RuleLists == UNION {[1 .. n -> RulePool] : n \in 0 .. MaxCustomRules}

MakeConfig(limits, contacts, domains, blockedActions, customRules) ==
    [perAction |-> limits.perAction, daily |-> limits.daily,
     warnAbove |-> limits.warnAbove, contacts |-> contacts, domains |-> domains,
     blockedActions |-> blockedActions, customRules |-> customRules]

\* configurations that vary the lists, and configurations that vary the custom rules
ListConfigs ==
    {MakeConfig(l, c, d, b, r) :
        l \in LimitChoices, c \in ListChoices,
        d \in {x \in ListChoices : Len(x.allowed) = Len(x.blocked)},
        b \in {{}, {"send_email", "api_write"}},
        r \in {<<>>, <<RuleWarnAmount, RuleBlockTarget>>}}

CustomConfigs ==
    {MakeConfig(l, NoLists, NoLists, {}, r) : l \in LimitChoices, r \in RuleLists}

RuleConfigs == ListConfigs \cup CustomConfigs

\* the configuration of a server run: the defaults, with or without two custom rules
ServerConfigs ==
    {MakeConfig(l, NoLists, NoLists, {}, r) :
        l \in LimitChoices, r \in {<<>>, <<RuleWarnAmount, RuleBlockTarget>>}}

\* spend states the engine can be in: nothing spent, part or all of the daily
\* budget spent today, and a total left over from yesterday
SpendChoices(today) ==
    {[used |-> 0, resetDate |-> today], [used |-> 150, resetDate |-> today],
     [used |-> 200, resetDate |-> today], [used |-> 150, resetDate |-> today - 1]}

RecordAmounts == {10, 50, 150}

(***************************************************************************)
(* SecurityEngine operations as steps                                      *)
(***************************************************************************)
CheckRulesOf(inputs) ==
    \E action \in inputs :
        LET result == checkRules(action)
        IN  /\ dailySpendUsed' = result.st.used
            /\ dailySpendResetDate' = result.st.resetDate
            /\ ret' = [op |-> "checkRules", action |-> action, result |-> result,
                       before |-> SpendState, today |-> Today, spent |-> spentToday]
            /\ UNCHANGED <<now, secret, rotationMinutes, config, spentToday, agentKey, actions>>
            /\ UNCHANGED <<db, reviews, currentDriftLevel, lastRefresh, insightsFile>>

\* checkRules on any action
CheckRules == CheckRulesOf(Actions)

PurchaseActions == {a \in Actions : a.action_type = "make_purchase" /\ a.target = Bob}

\* checkRules on a purchase of any amount
CheckPurchase == CheckRulesOf(PurchaseActions)

RecordSpend ==
    \E amount \in RecordAmounts :
        LET st1 == recordSpend(SpendState, Today, amount)
        IN  /\ spentToday + amount <= MaxRecorded
            /\ dailySpendUsed' = st1.used
            /\ dailySpendResetDate' = st1.resetDate
            /\ spentToday' = spentToday + amount
            /\ ret' = [op |-> "recordSpend", amount |-> amount, today |-> Today]
            /\ UNCHANGED <<now, secret, rotationMinutes, config, agentKey, actions>>
            /\ UNCHANGED <<db, reviews, currentDriftLevel, lastRefresh, insightsFile>>

(***************************************************************************)
(* Log store (logs.js logAction)                                           *)
(***************************************************************************)
sessionStart == "current"

\* INSERT OR REPLACE on the newest id: the row takes the place of the last one
logAction_ReplacesNewest(entry) ==
    SubSeq(actions, 1, Len(actions) - 1)
        \o <<[timestamp |-> entry.timestamp, session_id |-> sessionStart,
              action_type |-> entry.action_type, target |-> entry.target,
              amount |-> entry.amount, description |-> entry.description,
              verdict |-> entry.verdict, reason |-> entry.reason,
              key_was_valid |-> IF entry.key_was_valid THEN 1 ELSE 0,
              tier |-> entry.tier]>>

\* INSERT INTO actions: key_was_valid is stored as 1 or 0, a missing tier as 0
logAction(entry) ==
    Append(actions,
           [timestamp |-> entry.timestamp, session_id |-> sessionStart,
            action_type |-> entry.action_type, target |-> entry.target,
            amount |-> entry.amount, description |-> entry.description,
            verdict |-> entry.verdict, reason |-> entry.reason,
            key_was_valid |-> IF entry.key_was_valid THEN 1 ELSE 0,
            tier |-> entry.tier])

(***************************************************************************)
(* Tool handlers (index.js)                                                *)
(***************************************************************************)
VerifyActions ==
    {a \in Actions : /\ a.action_type = "make_purchase"
                     /\ a.target = Bob
                     /\ a.amount \in {0, 30, 60}}

\* verdict and reason of the verify response, from the checkRules result
Verdict(ruleResult) ==
    IF ~ruleResult.allowed
    THEN [verdict |-> "block", reason |-> ruleResult.reason]
    ELSE IF ruleResult.requiresConfirmation
         THEN [verdict |-> "warn", reason |-> ruleResult.reason]
         ELSE [verdict |-> "pass", reason |-> Reason("permitted", "")]

\* the carapace_verify handler on its arguments
VerifyCall(action, current_key) ==
        LET keyValid == IF current_key # NoKey THEN validateKey(current_key) ELSE FALSE
            ruleResult == checkRules(action)
            freshKey == generateKey
            v == Verdict(ruleResult)
        IN  /\ dailySpendUsed' = ruleResult.st.used
            /\ dailySpendResetDate' = ruleResult.st.resetDate
            /\ actions' = logAction([timestamp |-> now,
                                     action_type |-> action.action_type,
                                     target |-> action.target,
                                     amount |-> action.amount,
                                     description |-> action.description,
                                     verdict |-> v.verdict,
                                     reason |-> v.reason,
                                     key_was_valid |-> keyValid,
                                     tier |-> 0])
            /\ agentKey' = [key |-> freshKey, window |-> getCurrentWindowIndex]
            /\ ret' = [op |-> "carapace_verify", action |-> action,
                       current_key |-> current_key, keyValid |-> keyValid,
                       verdict |-> v.verdict, reason |-> v.reason,
                       verification_key |-> freshKey,
                       rules_checked |-> ruleResult.rulesChecked,
                       daily_spend_remaining |-> ruleResult.dailySpendRemaining,
                       window |-> getCurrentWindowIndex]
            /\ UNCHANGED <<now, secret, rotationMinutes, config, spentToday>>
            /\ UNCHANGED <<db, reviews, currentDriftLevel, lastRefresh, insightsFile>>

carapace_verify ==
    \E action \in VerifyActions, current_key \in {NoKey} \cup KeySpace :
        Len(actions) < MaxHistory /\ VerifyCall(action, current_key)

LogInputs ==
    {[action_type |-> "make_purchase", target |-> Bob, description |-> Pay,
      result |-> "success", tier |-> 1, amount |-> 50],
     [action_type |-> "make_purchase", target |-> Bob, description |-> Pay,
      result |-> "failure", tier |-> 3, amount |-> 0]}

\* the carapace_log handler on its arguments
LogCall(in, verification_key) ==
        LET keyValid == IF verification_key # NoKey
                        THEN validateKey(verification_key) ELSE FALSE
            unverifiedHighRisk == in.tier = 1 /\ ~keyValid
            st1 == IF in.amount > 0 THEN recordSpend(SpendState, Today, in.amount)
                   ELSE SpendState
        IN  /\ actions' = logAction([timestamp |-> now,
                                     action_type |-> in.action_type,
                                     target |-> in.target,
                                     amount |-> in.amount,
                                     description |-> in.description,
                                     verdict |-> in.result,
                                     reason |-> IF unverifiedHighRisk
                                                THEN Reason("unverified_tier1", "")
                                                ELSE Reason("logged", in.result),
                                     key_was_valid |-> keyValid,
                                     tier |-> in.tier])
            /\ dailySpendUsed' = st1.used
            /\ dailySpendResetDate' = st1.resetDate
            /\ spentToday' = IF in.amount > 0 THEN spentToday + in.amount ELSE spentToday
            /\ ret' = [op |-> "carapace_log", keyValid |-> keyValid,
                       logged |-> TRUE, log_id |-> Len(actions) + 1,
                       warning |-> unverifiedHighRisk, amount |-> in.amount,
                       verification_key |-> verification_key]
            /\ UNCHANGED <<now, secret, rotationMinutes, config, agentKey>>
            /\ UNCHANGED <<db, reviews, currentDriftLevel, lastRefresh, insightsFile>>

carapace_log ==
    \E in \in LogInputs, verification_key \in {NoKey} \cup KeySpace :
        /\ Len(actions) < MaxHistory
        /\ spentToday + in.amount <= MaxRecorded
        /\ LogCall(in, verification_key)

(***************************************************************************)
(* IEEE 754 double arithmetic, as the JavaScript engine performs it        *)
(*                                                                         *)
(* A natural number of any size is a sequence of bits, lowest first.  A    *)
(* double is (-1)^neg * m * 2^e with m zero (the empty sequence) or        *)
(* exactly MantissaBits bits long; every operation computes the exact      *)
(* result and rounds it to the nearest double, ties to even.  The values   *)
(* of the scoring code stay far from the overflow and subnormal ranges.    *)
(***************************************************************************)
MantissaBits == 53

\* products are formed on digits of LimbBits bits, sums and shifts on bits
LimbBits == 7 + 7

LimbBase == 128 * 128

RECURSIVE Pow2(_)
Pow2(k) == IF k = 0 THEN 1 ELSE 2 * Pow2(k - 1)

RECURSIVE NatBits(_)
NatBits(n) == IF n = 0 THEN <<>> ELSE <<n % 2>> \o NatBits(n \div 2)

RECURSIVE BitsNat(_)
BitsNat(b) == IF b = <<>> THEN 0 ELSE b[1] + 2 * BitsNat(Tail(b))

Zeros(n) == [i \in 1 .. n |-> 0]

BitAt(b, i) == IF i \in 1 .. Len(b) THEN b[i] ELSE 0

\* the position of the highest set bit, 0 when there is none
HighestOne(b) ==
    IF \A i \in 1 .. Len(b) : b[i] = 0 THEN 0
    ELSE CHOOSE i \in 1 .. Len(b) :
            b[i] = 1 /\ \A j \in (i + 1) .. Len(b) : b[j] = 0

BigTrim(b) == SubSeq(b, 1, HighestOne(b))

\* the carry into position i of a + b
BigCarry(a, b, i) ==
    \E j \in 1 .. (i - 1) :
        /\ BitAt(a, j) + BitAt(b, j) = 2
        /\ \A k \in (j + 1) .. (i - 1) : BitAt(a, k) + BitAt(b, k) = 1

BigAdd(a, b) ==
    BigTrim([i \in 1 .. (Max(Len(a), Len(b)) + 1) |->
                (BitAt(a, i) + BitAt(b, i)
                    + (IF BigCarry(a, b, i) THEN 1 ELSE 0)) % 2])

\* the borrow from position i of a - b
BigBorrow(a, b, i) ==
    \E j \in 1 .. (i - 1) :
        /\ BitAt(a, j) < BitAt(b, j)
        /\ \A k \in (j + 1) .. (i - 1) : BitAt(a, k) = BitAt(b, k)

\* a - b for a >= b
BigSub(a, b) ==
    BigTrim([i \in 1 .. Len(a) |->
                (2 + BitAt(a, i) - BitAt(b, i)
                    - (IF BigBorrow(a, b, i) THEN 1 ELSE 0)) % 2])

\* a < b, for trimmed a and b
BigLess(a, b) ==
    \/ Len(a) < Len(b)
    \/ /\ Len(a) = Len(b)
       /\ \E i \in 1 .. Len(a) :
             /\ a[i] < b[i]
             /\ \A j \in (i + 1) .. Len(a) : a[j] = b[j]

BitsToLimbs(b) ==
    [j \in 1 .. ((Len(b) + LimbBits - 1) \div LimbBits) |->
        BitsNat([i \in 1 .. LimbBits |-> BitAt(b, LimbBits * (j - 1) + i)])]

LimbsToBits(l) ==
    [i \in 1 .. (LimbBits * Len(l)) |->
        (l[((i - 1) \div LimbBits) + 1] \div Pow2((i - 1) % LimbBits)) % 2]

\* the sum of the digit products of weight LimbBase^(k-1), from digit i of a on
RECURSIVE LimbMulColumn(_, _, _, _)
LimbMulColumn(a, b, k, i) ==
    IF i > Len(a) THEN 0
    ELSE (IF (k + 1 - i) \in 1 .. Len(b) THEN a[i] * b[k + 1 - i] ELSE 0)
            + LimbMulColumn(a, b, k, i + 1)

RECURSIVE LimbMulFrom(_, _, _, _)
LimbMulFrom(a, b, k, carry) ==
    IF k > Len(a) + Len(b)
    THEN <<>>
    ELSE LET total == LimbMulColumn(a, b, k, 1) + carry
         IN  <<total % LimbBase>> \o LimbMulFrom(a, b, k + 1, total \div LimbBase)

\* a * b for two mantissas
BigMul(a, b) ==
    BigTrim(LimbsToBits(LimbMulFrom(BitsToLimbs(a), BitsToLimbs(b), 1, 0)))

DoubleZero == [neg |-> FALSE, m |-> <<>>, e |-> 0]

\* the double nearest to (-1)^neg * bits * 2^e, ties to even
RoundToDouble(neg, bits, e) ==
    LET b == BigTrim(bits)
        n == Len(b)
        d == n - MantissaBits
    IN  IF n = 0 THEN DoubleZero
        ELSE IF d <= 0
        THEN [neg |-> neg, m |-> Zeros(-d) \o b, e |-> e + d]
        ELSE LET kept == SubSeq(b, d + 1, n)
                 half == b[d] = 1
                 sticky == \E i \in 1 .. (d - 1) : b[i] = 1
                 up == half /\ (sticky \/ kept[1] = 1)
                 raised == IF up THEN BigAdd(kept, <<1>>) ELSE kept
             IN  IF Len(raised) > MantissaBits
                 THEN [neg |-> neg, m |-> Tail(raised), e |-> e + d + 1]
                 ELSE [neg |-> neg, m |-> raised, e |-> e + d]

\* Number(n) for an integer n
DoubleOfInt(n) ==
    IF n < 0 THEN RoundToDouble(TRUE, NatBits(-n), 0)
    ELSE RoundToDouble(FALSE, NatBits(n), 0)

\* the first k digits of the fraction r / b, highest first, then the remainder
RECURSIVE FractionLimbs(_, _, _)
FractionLimbs(r, b, k) ==
    IF k = 0
    THEN <<r>>
    ELSE <<(r * LimbBase) \div b>> \o FractionLimbs((r * LimbBase) % b, b, k - 1)

Reverse(s) == [i \in 1 .. Len(s) |-> s[Len(s) + 1 - i]]

\* a / b for natural numbers a and b > 0: the quotient is developed past the
\* mantissa and what remains of it is folded into a lowest bit
DoubleDiv(a, b) ==
    LET k == ((MantissaBits + 2 + Len(NatBits(b))) \div LimbBits) + 1
        f == FractionLimbs(a % b, b, k)
        rest == IF f[k + 1] = 0 THEN 0 ELSE 1
    IN  RoundToDouble(FALSE,
                      <<rest>> \o LimbsToBits(Reverse(SubSeq(f, 1, k)))
                          \o NatBits(a \div b),
                      -(LimbBits * k + 1))

\* a decimal literal such as 0.6, written 6/10
DoubleLiteral(num, den) == DoubleDiv(num, den)

DoubleMul(x, y) == RoundToDouble(x.neg # y.neg, BigMul(x.m, y.m), x.e + y.e)

\* x + y, signs included
DoubleAdd(x, y) ==
    IF x.m = <<>> THEN y
    ELSE IF y.m = <<>> THEN x
    ELSE LET e == IF x.e < y.e THEN x.e ELSE y.e
             a == Zeros(x.e - e) \o x.m
             b == Zeros(y.e - e) \o y.m
         IN  IF x.neg = y.neg
             THEN RoundToDouble(x.neg, BigAdd(a, b), e)
             ELSE IF BigLess(a, b)
                  THEN RoundToDouble(y.neg, BigSub(b, a), e)
                  ELSE RoundToDouble(x.neg, BigSub(a, b), e)

DoubleNeg(x) == IF x.m = <<>> THEN x ELSE [x EXCEPT !.neg = ~x.neg]

DoubleSub(x, y) == DoubleAdd(x, DoubleNeg(y))

\* x < y
DoubleLess(x, y) ==
    LET d == DoubleSub(x, y) IN d.m # <<>> /\ d.neg

\* Math.round of a double of moderate size: the nearest integer, halves upward
MathRound(x) ==
    LET shift == -x.e
        whole == IF shift <= 0 THEN Zeros(-shift) \o x.m
                 ELSE SubSeq(x.m, shift + 1, Len(x.m))
        half == shift > 0 /\ BitAt(x.m, shift) = 1
        rest == \E i \in 1 .. (shift - 1) : BitAt(x.m, i) = 1
        w == BitsNat(BigTrim(whole))
    IN  IF x.m = <<>> THEN 0
        ELSE IF ~x.neg THEN (IF half THEN w + 1 ELSE w)
        ELSE (IF half /\ rest THEN -(w + 1) ELSE -w)

(***************************************************************************)
(* Text (anchor.js, review.ts)                                             *)
(***************************************************************************)
\* the characters \w matches
WordChars ==
    {"a", "b", "c", "d", "e", "f", "g", "h", "i", "j", "k", "l", "m", "n", "o",
     "p", "q", "r", "s", "t", "u", "v", "w", "x", "y", "z", "A", "B", "C", "D",
     "E", "F", "G", "H", "I", "J", "K", "L", "M", "N", "O", "P", "Q", "R", "S",
     "T", "U", "V", "W", "X", "Y", "Z", "0", "1", "2", "3", "4", "5", "6", "7",
     "8", "9", "_"}

\* the k-th smallest element of a set of positions
Nth(S, k) == CHOOSE i \in S : Cardinality({j \in S : j <= i}) = k

\* the elements of seq at the positions S, in their order
Pick(seq, S) == [k \in 1 .. Cardinality(S) |-> seq[Nth(S, k)]]

\* text.toLowerCase().split(/\W+/).filter((w) => w.length > 2): the maximal
\* runs of word characters that are longer than two, in their order
tokenize(text) ==
    LET lower == toLowerCase(text)
        n == Len(lower)
        isWord(i) == i \in 1 .. n /\ lower[i] \in WordChars
        starts == {i \in 1 .. n : isWord(i) /\ ~isWord(i - 1)}
        endOf(i) == CHOOSE j \in i .. n :
                        (\A k \in i .. j : isWord(k)) /\ ~isWord(j + 1)
        long == {i \in starts : endOf(i) - i + 1 > 2}
    IN  [k \in 1 .. Cardinality(long) |->
            SubSeq(lower, Nth(long, k), endOf(Nth(long, k)))]

CATEGORY_KEYWORDS ==
    [
     email |->
       <<<<"e", "m", "a", "i", "l">>,
         <<"i", "n", "b", "o", "x">>,
         <<"m", "a", "i", "l">>,
         <<"m", "e", "s", "s", "a", "g", "e">>,
         <<"r", "e", "p", "l", "y">>,
         <<"f", "o", "r", "w", "a", "r", "d">>,
         <<"d", "r", "a", "f", "t">>,
         <<"c", "o", "m", "p", "o", "s", "e">>,
         <<"s", "e", "n", "d">>,
         <<"n", "e", "w", "s", "l", "e", "t", "t", "e", "r">>,
         <<"u", "n", "s", "u", "b", "s", "c", "r", "i", "b", "e">>,
         <<"a", "t", "t", "a", "c", "h", "m", "e", "n", "t">>>>,
     calendar |->
       <<<<"c", "a", "l", "e", "n", "d", "a", "r">>,
         <<"s", "c", "h", "e", "d", "u", "l", "e">>,
         <<"m", "e", "e", "t", "i", "n", "g">>,
         <<"e", "v", "e", "n", "t">>,
         <<"a", "p", "p", "o", "i", "n", "t", "m", "e", "n", "t">>,
         <<"r", "e", "m", "i", "n", "d", "e", "r">>,
         <<"a", "g", "e", "n", "d", "a">>,
         <<"i", "n", "v", "i", "t", "e">>,
         <<"r", "e", "s", "c", "h", "e", "d", "u", "l", "e">>,
         <<"b", "l", "o", "c", "k">>,
         <<"s", "l", "o", "t">>,
         <<"a", "v", "a", "i", "l", "a", "b", "i", "l", "i", "t", "y">>>>,
     productivity |->
       <<<<"t", "a", "s", "k">>,
         <<"t", "o", "d", "o">>,
         <<"c", "h", "e", "c", "k", "l", "i", "s", "t">>,
         <<"o", "r", "g", "a", "n", "i", "z", "e">>,
         <<"p", "r", "i", "o", "r", "i", "t", "i", "z", "e">>,
         <<"p", "l", "a", "n">>,
         <<"d", "e", "a", "d", "l", "i", "n", "e">>,
         <<"p", "r", "o", "j", "e", "c", "t">>,
         <<"g", "o", "a", "l">>,
         <<"f", "o", "c", "u", "s">>,
         <<"t", "r", "a", "c", "k">>,
         <<"p", "r", "o", "g", "r", "e", "s", "s">>>>,
     coding |->
       <<<<"c", "o", "d", "e">>,
         <<"d", "e", "b", "u", "g">>,
         <<"d", "e", "p", "l", "o", "y">>,
         <<"c", "o", "m", "m", "i", "t">>,
         <<"b", "r", "a", "n", "c", "h">>,
         <<"m", "e", "r", "g", "e">>,
         <<"t", "e", "s", "t">>,
         <<"b", "u", "i", "l", "d">>,
         <<"c", "o", "m", "p", "i", "l", "e">>,
         <<"s", "c", "r", "i", "p", "t">>,
         <<"f", "u", "n", "c", "t", "i", "o", "n">>,
         <<"a", "p", "i">>,
         <<"e", "n", "d", "p", "o", "i", "n", "t">>,
         <<"r", "e", "p", "o", "s", "i", "t", "o", "r", "y">>,
         <<"p", "u", "l", "l", " ", "r", "e", "q", "u", "e", "s", "t">>,
         <<"b", "u", "g">>,
         <<"f", "e", "a", "t", "u", "r", "e">>>>,
     research |->
       <<<<"s", "e", "a", "r", "c", "h">>,
         <<"r", "e", "s", "e", "a", "r", "c", "h">>,
         <<"f", "i", "n", "d">>,
         <<"l", "o", "o", "k", " ", "u", "p">>,
         <<"i", "n", "v", "e", "s", "t", "i", "g", "a", "t", "e">>,
         <<"a", "n", "a", "l", "y", "z", "e">>,
         <<"c", "o", "m", "p", "a", "r", "e">>,
         <<"r", "e", "v", "i", "e", "w">>,
         <<"r", "e", "p", "o", "r", "t">>,
         <<"s", "u", "m", "m", "a", "r", "i", "z", "e">>,
         <<"a", "r", "t", "i", "c", "l", "e">>,
         <<"p", "a", "p", "e", "r">>>>,
     finance |->
       <<<<"b", "u", "d", "g", "e", "t">>,
         <<"e", "x", "p", "e", "n", "s", "e">>,
         <<"p", "u", "r", "c", "h", "a", "s", "e">>,
         <<"p", "a", "y", "m", "e", "n", "t">>,
         <<"i", "n", "v", "o", "i", "c", "e">>,
         <<"b", "i", "l", "l", "i", "n", "g">>,
         <<"s", "u", "b", "s", "c", "r", "i", "p", "t", "i", "o", "n">>,
         <<"c", "o", "s", "t">>,
         <<"p", "r", "i", "c", "e">>,
         <<"t", "r", "a", "n", "s", "a", "c", "t", "i", "o", "n">>,
         <<"b", "a", "n", "k">>,
         <<"a", "c", "c", "o", "u", "n", "t">>>>,
     communication |->
       <<<<"s", "l", "a", "c", "k">>,
         <<"d", "i", "s", "c", "o", "r", "d">>,
         <<"t", "e", "l", "e", "g", "r", "a", "m">>,
         <<"w", "h", "a", "t", "s", "a", "p", "p">>,
         <<"c", "h", "a", "t">>,
         <<"c", "a", "l", "l">>,
         <<"r", "e", "s", "p", "o", "n", "d">>,
         <<"n", "o", "t", "i", "f", "y">>,
         <<"u", "p", "d", "a", "t", "e">>,
         <<"a", "n", "n", "o", "u", "n", "c", "e", "m", "e", "n", "t">>,
         <<"t", "e", "a", "m">>>>,
     files |->
       <<<<"f", "i", "l", "e">>,
         <<"d", "o", "c", "u", "m", "e", "n", "t">>,
         <<"f", "o", "l", "d", "e", "r">>,
         <<"d", "o", "w", "n", "l", "o", "a", "d">>,
         <<"u", "p", "l", "o", "a", "d">>,
         <<"s", "a", "v", "e">>,
         <<"c", "r", "e", "a", "t", "e">>,
         <<"e", "d", "i", "t">>,
         <<"r", "e", "n", "a", "m", "e">>,
         <<"m", "o", "v", "e">>,
         <<"c", "o", "p", "y">>,
         <<"d", "e", "l", "e", "t", "e">>,
         <<"b", "a", "c", "k", "u", "p">>>>,
     shopping |->
       <<<<"b", "u", "y">>,
         <<"p", "u", "r", "c", "h", "a", "s", "e">>,
         <<"o", "r", "d", "e", "r">>,
         <<"c", "a", "r", "t">>,
         <<"c", "h", "e", "c", "k", "o", "u", "t">>,
         <<"s", "h", "o", "p">>,
         <<"s", "t", "o", "r", "e">>,
         <<"p", "r", "o", "d", "u", "c", "t">>,
         <<"i", "t", "e", "m">>,
         <<"d", "e", "l", "i", "v", "e", "r", "y">>,
         <<"s", "h", "i", "p", "p", "i", "n", "g">>,
         <<"r", "e", "t", "u", "r", "n">>>>,
     browsing |->
       <<<<"b", "r", "o", "w", "s", "e">>,
         <<"w", "e", "b", "s", "i", "t", "e">>,
         <<"w", "e", "b">>,
         <<"p", "a", "g", "e">>,
         <<"l", "i", "n", "k">>,
         <<"c", "l", "i", "c", "k">>,
         <<"n", "a", "v", "i", "g", "a", "t", "e">>,
         <<"v", "i", "s", "i", "t">>,
         <<"o", "p", "e", "n">>,
         <<"t", "a", "b">>,
         <<"b", "o", "o", "k", "m", "a", "r", "k">>>>
    ]

\* Object.entries(CATEGORY_KEYWORDS): the categories in their order
CategoryOrder ==
    <<"email", "calendar", "productivity", "coding", "research", "finance",
      "communication", "files", "shopping", "browsing">>

\* CATEGORY_KEYWORDS[category] || []
KeywordsOf(category) ==
    IF category \in DOMAIN CATEGORY_KEYWORDS THEN CATEGORY_KEYWORDS[category] ELSE <<>>

\* only a word inside a keyword counts, not a keyword inside a word
KeywordMatches_KeywordHasWord(keyword, word) == includes(keyword, word)

\* keyword.includes(word) || word.includes(keyword)
KeywordMatches(keyword, word) == includes(keyword, word) \/ includes(word, keyword)

\* some keyword of the category matches the word
WordInCategory(word, category) ==
    \E k \in 1 .. Len(KeywordsOf(category)) :
        KeywordMatches(KeywordsOf(category)[k], word)

(***************************************************************************)
(* AnchorEngine (anchor.js)                                                *)
(***************************************************************************)
\* this.config.get(path, default): the default when the path is not configured
ConfigGet(cfg, field, default) == IF field \in DOMAIN cfg THEN cfg[field] ELSE default

DefaultGoalCategories == <<"email", "calendar", "productivity">>

goalCategoriesOf(cfg) == ConfigGet(cfg, "goalCategories", DefaultGoalCategories)

\* the built-in defaults of every lookup
DefaultConfig ==
    MakeConfig([perAction |-> 50, daily |-> 200, warnAbove |-> 20],
               NoLists, NoLists, {}, <<>>)

DoubleOne == DoubleOfInt(1)

DoubleHundred == DoubleOfInt(100)

CategoryWeight == DoubleLiteral(6, 10)

WordWeight == DoubleLiteral(4, 10)

NoneBelow == DoubleLiteral(2, 10)

LowBelow == DoubleLiteral(4, 10)

MediumBelow == DoubleLiteral(7, 10)

\* the positions of the goal categories that some activity word matches
alignedCategoriesOf(goalCategories, activityWords) ==
    {c \in 1 .. Len(goalCategories) :
        \E w \in 1 .. Len(activityWords) :
            WordInCategory(activityWords[w], goalCategories[c])}

\* only goal categories count: a word that matches another category is unmatched
matchedWordsOf_AnyCategory(goalCategories, activityWords) ==
    {activityWords[w] : w \in {v \in 1 .. Len(activityWords) :
        \E c \in 1 .. Len(CategoryOrder) :
            WordInCategory(activityWords[v], CategoryOrder[c])}}

\* the Set of the words that match a keyword of an aligned goal category
matchedWordsOf(goalCategories, activityWords) ==
    {activityWords[w] : w \in {v \in 1 .. Len(activityWords) :
        \E c \in alignedCategoriesOf(goalCategories, activityWords) :
            WordInCategory(activityWords[v], goalCategories[c])}}

\* the boundaries taken inclusively: a score equal to a boundary falls below it
DriftLevel_Inclusive(driftScore) ==
    IF ~DoubleLess(NoneBelow, driftScore) THEN "none"
    ELSE IF ~DoubleLess(LowBelow, driftScore) THEN "low"
    ELSE IF ~DoubleLess(MediumBelow, driftScore) THEN "medium"
    ELSE "high"

DriftLevel(driftScore) ==
    IF DoubleLess(driftScore, NoneBelow) THEN "none"
    ELSE IF DoubleLess(driftScore, LowBelow) THEN "low"
    ELSE IF DoubleLess(driftScore, MediumBelow) THEN "medium"
    ELSE "high"

\* Math.round(x * 100) / 100
RoundToHundredths(x) ==
    LET r == MathRound(DoubleMul(x, DoubleHundred))
    IN  IF r < 0 THEN DoubleNeg(DoubleDiv(-r, 100)) ELSE DoubleDiv(r, 100)

\* assessDrift, with goalCategories the configured "anchor.goalCategories";
\* the caller stores the level in currentDriftLevel
assessDrift(goalCategories, activitySummary) ==
    LET activityWords == tokenize(activitySummary)
        aligned == alignedCategoriesOf(goalCategories, activityWords)
        matchedWords == matchedWordsOf(goalCategories, activityWords)
        unaligned == {w \in 1 .. Len(activityWords) :
                        /\ activityWords[w] \notin matchedWords
                        /\ Len(activityWords[w]) > 3
                        /\ \A v \in 1 .. (w - 1) : activityWords[v] # activityWords[w]}
        categoryAlignmentRatio ==
            IF Len(goalCategories) > 0
            THEN DoubleDiv(Cardinality(aligned), Len(goalCategories))
            ELSE DoubleOne
        wordAlignmentRatio ==
            IF Len(activityWords) > 0
            THEN DoubleDiv(Cardinality(matchedWords), Len(activityWords))
            ELSE DoubleOne
        driftScore ==
            DoubleSub(DoubleOne,
                      DoubleAdd(DoubleMul(categoryAlignmentRatio, CategoryWeight),
                                DoubleMul(wordAlignmentRatio, WordWeight)))
        level == DriftLevel(driftScore)
    IN  IF Len(activityWords) = 0
        THEN [level |-> "none", driftScore |-> DoubleZero, score |-> DoubleZero,
              explanation |-> Reason("drift", "no_activity"),
              aligned_categories |-> <<>>, unaligned_terms |-> <<>>,
              activityWords |-> activityWords]
        ELSE [level |-> level, driftScore |-> driftScore,
              score |-> RoundToHundredths(driftScore),
              explanation |-> Reason("drift", level),
              aligned_categories |-> Pick(goalCategories, aligned),
              unaligned_terms |->
                  Pick(activityWords, {w \in unaligned :
                                          Cardinality({v \in unaligned : v <= w}) <= 10}),
              activityWords |-> activityWords]

(***************************************************************************)
(* Inputs of the anchor                                                    *)
(***************************************************************************)
\* "I replied to three emails and scheduled a meeting"
SummaryMail ==
    <<"I", " ", "r", "e", "p", "l", "i", "e", "d", " ", "t", "o", " ", "t",
      "h", "r", "e", "e", " ", "e", "m", "a", "i", "l", "s", " ", "a", "n",
      "d", " ", "s", "c", "h", "e", "d", "u", "l", "e", "d", " ", "a", " ",
      "m", "e", "e", "t", "i", "n", "g">>

\* "I browsed reddit threads about movies"
SummaryReddit ==
    <<"I", " ", "b", "r", "o", "w", "s", "e", "d", " ", "r", "e", "d", "d",
      "i", "t", " ", "t", "h", "r", "e", "a", "d", "s", " ", "a", "b", "o",
      "u", "t", " ", "m", "o", "v", "i", "e", "s">>

\* "ok go"
SummaryShort ==
    <<"o", "k", " ", "g", "o">>

\* "email email email!"
SummaryRepeat ==
    <<"e", "m", "a", "i", "l", " ", "e", "m", "a", "i", "l", " ", "e", "m",
      "a", "i", "l", "!">>

\* "Cleared the inbox"
SummaryInbox ==
    <<"C", "l", "e", "a", "r", "e", "d", " ", "t", "h", "e", " ", "i", "n",
      "b", "o", "x">>

\* "Plan tasks, track deadline"
SummaryPlan ==
    <<"P", "l", "a", "n", " ", "t", "a", "s", "k", "s", ",", " ", "t", "r",
      "a", "c", "k", " ", "d", "e", "a", "d", "l", "i", "n", "e">>

\* "email meeting task"
SummaryAll ==
    <<"e", "m", "a", "i", "l", " ", "m", "e", "e", "t", "i", "n", "g", " ",
      "t", "a", "s", "k">>

\* "Debug the build script"
SummaryCode ==
    <<"D", "e", "b", "u", "g", " ", "t", "h", "e", " ", "b", "u", "i", "l",
      "d", " ", "s", "c", "r", "i", "p", "t">>

\* "Reply, then buy a calendar"
SummaryMixed ==
    <<"R", "e", "p", "l", "y", ",", " ", "t", "h", "e", "n", " ", "b", "u",
      "y", " ", "a", " ", "c", "a", "l", "e", "n", "d", "a", "r">>

\* "SEND MAIL NOW"
SummaryUpper ==
    <<"S", "E", "N", "D", " ", "M", "A", "I", "L", " ", "N", "O", "W">>

\* "send_email done"
SummaryUnderscore ==
    <<"s", "e", "n", "d", "_", "e", "m", "a", "i", "l", " ", "d", "o", "n",
      "e">>

\* "Q3 report2 sent"
SummaryDigits ==
    <<"Q", "3", " ", "r", "e", "p", "o", "r", "t", "2", " ", "s", "e", "n",
      "t">>

\* "meeting"
SummaryMeeting ==
    <<"m", "e", "e", "t", "i", "n", "g">>

\* context_summary omitted, or the empty string
NoSummary == <<>>

Summaries ==
    {NoSummary, SummaryMail, SummaryReddit, SummaryShort, SummaryRepeat,
     SummaryInbox, SummaryPlan, SummaryAll, SummaryCode,
     SummaryMixed, SummaryUpper, SummaryUnderscore, SummaryDigits,
     SummaryMeeting}

\* lists of goal categories: the default, an empty list, a category without
\* keywords, a category listed twice
GoalCategoryChoices ==
    {DefaultGoalCategories, <<"email", "calendar">>, <<>>, <<"email">>,
     <<"coding", "research">>, <<"hobbies">>, <<"email", "email">>,
     <<"browsing", "files", "shopping", "finance">>}

\* assessDrift on the inputs above, computed once
Assessed ==
    [g \in GoalCategoryChoices |-> [s \in Summaries |-> assessDrift(g, s)]]

ANCHOR_REFRESH ==
    <<"a", "n", "c", "h", "o", "r", "_", "r", "e", "f", "r", "e", "s", "h">>

CONTEXT_WINDOW ==
    <<"c", "o", "n", "t", "e", "x", "t", "_", "w", "i", "n", "d", "o", "w">>

LevelChars(level) ==
    CASE level = "none" -> <<"n", "o", "n", "e">>
      [] level = "low" -> <<"l", "o", "w">>
      [] level = "medium" -> <<"m", "e", "d", "i", "u", "m">>
      [] level = "high" -> <<"h", "i", "g", "h">>

\* `Anchor refresh. Drift: ${level}. Summary: ${context_summary}`
AnchorDescription(level, context_summary) ==
    <<"A", "n", "c", "h", "o", "r", " ", "r", "e", "f", "r", "e", "s", "h",
      ".", " ", "D", "r", "i", "f", "t", ":", " ">>
        \o LevelChars(level) \o
    <<".", " ", "S", "u", "m", "m", "a", "r", "y", ":", " ">>
        \o context_summary

(***************************************************************************)
(* AnchorEngine operations and the anchor tool (index.js)                  *)
(***************************************************************************)
AssessDrift ==
    \E activitySummary \in Summaries :
        \E result \in {Assessed[goalCategoriesOf(config)][activitySummary]} :
            /\ currentDriftLevel' = result.level
            /\ ret' = [op |-> "assessDrift", activitySummary |-> activitySummary,
                       goalCategories |-> goalCategoriesOf(config),
                       result |-> result, before |-> currentDriftLevel]
            /\ UNCHANGED <<now, secret, rotationMinutes, config, dailySpendUsed,
                           dailySpendResetDate, spentToday, agentKey, actions>>
            /\ UNCHANGED <<db, reviews, lastRefresh, insightsFile>>

\* the summaries the agent sends with an anchor refresh
AnchorInputs == {NoSummary, SummaryMail}

\* what the agent reports when every tool is in play
ToolSummaries == {NoSummary, SummaryMail, SummaryShort}

NoAssessment == [level |-> "null"]

\* the carapace_anchor handler on its argument
AnchorCall(context_summary) ==
        \E driftAssessment \in {Assessed[goalCategoriesOf(config)][context_summary]} :
            /\ lastRefresh' = now
            /\ IF context_summary # <<>>
               THEN /\ currentDriftLevel' = driftAssessment.level
                    /\ actions' = logAction(
                           [timestamp |-> now,
                            action_type |-> "anchor_refresh",
                            target |-> CONTEXT_WINDOW,
                            amount |-> 0,
                            description |-> AnchorDescription(driftAssessment.level,
                                                              context_summary),
                            verdict |-> "pass",
                            reason |-> driftAssessment.explanation,
                            key_was_valid |-> TRUE,
                            tier |-> 0])
                    /\ ret' = [op |-> "carapace_anchor",
                               context_summary |-> context_summary,
                               drift_assessment |-> driftAssessment]
               ELSE /\ UNCHANGED <<currentDriftLevel, actions>>
                    /\ ret' = [op |-> "carapace_anchor",
                               context_summary |-> context_summary,
                               drift_assessment |-> NoAssessment]
            /\ UNCHANGED <<now, secret, rotationMinutes, config, dailySpendUsed,
                           dailySpendResetDate, spentToday, agentKey>>
            /\ UNCHANGED <<db, reviews, insightsFile>>

carapace_anchor ==
    \E context_summary \in AnchorInputs :
        /\ context_summary # <<>> => Len(actions) < MaxHistory
        /\ AnchorCall(context_summary)

(***************************************************************************)
(* Log store queries (logs.js)                                             *)
(***************************************************************************)
\* SELECT * FROM actions: every row with its rowid.  Rows are inserted with
\* the clock's time, so insertion order is also timestamp order.
ActionRows(table) == [i \in 1 .. Len(table) |-> table[i] @@ [id |-> i]]

\* the session_id argument when the caller gives none
NoSession == ""

\* ... WHERE session_id = ? ORDER BY timestamp ASC; no rows without a database
getActionsBySession(table, open, sessionId) ==
    IF ~open THEN <<>>
    ELSE SelectSeq(ActionRows(table), LAMBDA r : r.session_id = sessionId)

\* ... ORDER BY timestamp DESC LIMIT ?; no rows without a database
getRecentActions(table, open, limit) ==
    IF ~open THEN <<>>
    ELSE LET n == Len(table)
             k == IF limit < n THEN limit ELSE n
         IN  [i \in 1 .. k |-> ActionRows(table)[n + 1 - i]]

\* the counts of the current session; zeros without a database
getSessionStats(table, open) ==
    LET mine == {i \in 1 .. Len(table) : open /\ table[i].session_id = sessionStart}
        count(P(_)) == Cardinality({i \in mine : P(table[i])})
    IN  [totalActions |-> Cardinality(mine),
         verifiedActions |-> count(LAMBDA r : r.key_was_valid = 1),
         blockedActions |-> count(LAMBDA r : r.verdict = "block"),
         unverifiedTier1 |-> count(LAMBDA r : r.tier = 1 /\ r.key_was_valid = 0),
         tierBreakdown |-> [tier1 |-> count(LAMBDA r : r.tier = 1),
                            tier2 |-> count(LAMBDA r : r.tier = 2),
                            tier3 |-> count(LAMBDA r : r.tier = 3)],
         sessionStart |-> sessionStart]

(***************************************************************************)
(* ReviewEngine (review.ts)                                                *)
(***************************************************************************)
RowTypeChars(type) ==
    IF type = "anchor_refresh" THEN ANCHOR_REFRESH ELSE ActionTypeChars(type)

\* `${action.action_type} ${action.description}`
RowText(a) == RowTypeChars(a.action_type) \o <<" ">> \o a.description

matchesGoalCategories(tokens, goalCategories) ==
    \E c \in 1 .. Len(goalCategories), t \in 1 .. Len(tokens) :
        WordInCategory(tokens[t], goalCategories[c])

\* the positions of the rows whose tokens match a goal category
AlignedRows(rows, goalCategories) ==
    {i \in 1 .. Len(rows) :
        matchesGoalCategories(tokenize(RowText(rows[i])), goalCategories)}

scoreGoalAlignment(rows, goalCategories) ==
    IF Len(rows) = 0 THEN 100
    ELSE MathRound(DoubleMul(DoubleDiv(Cardinality(AlignedRows(rows, goalCategories)),
                                       Len(rows)),
                             DoubleHundred))

\* 5 * 60 * 1000
RetryWindowMs == 5 * 60 * 1000

\* a retry exactly at the end of the five minutes does not count
Retried_OpenWindow(rows, b) ==
    \E a \in 1 .. Len(rows) :
        /\ rows[a].id # rows[b].id
        /\ rows[a].action_type = rows[b].action_type
        /\ rows[a].verdict # "block"
        /\ rows[a].timestamp > rows[b].timestamp
        /\ rows[a].timestamp - rows[b].timestamp < RetryWindowMs

\* the blocked row b was retried: another row of its type, not blocked, after
\* it and within the window
Retried(rows, b) ==
    \E a \in 1 .. Len(rows) :
        /\ rows[a].id # rows[b].id
        /\ rows[a].action_type = rows[b].action_type
        /\ rows[a].verdict # "block"
        /\ rows[a].timestamp > rows[b].timestamp
        /\ rows[a].timestamp - rows[b].timestamp <= RetryWindowMs

\* the deductions are not floored
scoreSecurityCompliance_NoFloor(rows) ==
    LET idx == 1 .. Len(rows)
        tier1 == {i \in idx : rows[i].tier = 1 /\ rows[i].key_was_valid = 0}
        tier2 == {i \in idx : rows[i].tier = 2 /\ rows[i].key_was_valid = 0}
        retried == {b \in idx : rows[b].verdict = "block" /\ Retried(rows, b)}
    IN  100 - 15 * Cardinality(tier1) - 5 * Cardinality(tier2)
            - 20 * Cardinality(retried)

scoreSecurityCompliance(rows) ==
    LET idx == 1 .. Len(rows)
        tier1 == {i \in idx : rows[i].tier = 1 /\ rows[i].key_was_valid = 0}
        tier2 == {i \in idx : rows[i].tier = 2 /\ rows[i].key_was_valid = 0}
        retried == {b \in idx : rows[b].verdict = "block" /\ Retried(rows, b)}
    IN  Max(0, 100 - 15 * Cardinality(tier1) - 5 * Cardinality(tier2)
                   - 20 * Cardinality(retried))

\* tokenize(c).filter((w) => w.length > 3), as a set
ConstraintKeywords(constraint) ==
    {w \in Range(tokenize(constraint)) : Len(w) > 3}

\* without the break: a blocked action pays for every constraint it overlaps
scoreConstraintAdherence_PerConstraint(rows, constraints) ==
    LET violating ==
            {<<i, c>> \in (1 .. Len(rows)) \X (1 .. Len(constraints)) :
                /\ rows[i].verdict = "block"
                /\ Range(tokenize(RowText(rows[i])))
                       \cap ConstraintKeywords(constraints[c]) # {}}
    IN  IF Len(constraints) = 0 THEN 100
        ELSE Max(0, 100 - 25 * Cardinality(violating))

scoreConstraintAdherence(rows, constraints) ==
    LET violating ==
            {i \in 1 .. Len(rows) :
                /\ rows[i].verdict = "block"
                /\ \E c \in 1 .. Len(constraints) :
                      Range(tokenize(RowText(rows[i])))
                          \cap ConstraintKeywords(constraints[c]) # {}}
    IN  IF Len(constraints) = 0 THEN 100
        ELSE Max(0, 100 - 25 * Cardinality(violating))

GoalWeight == DoubleLiteral(4, 10)

SecurityWeight == DoubleLiteral(4, 10)

ConstraintWeight == DoubleLiteral(2, 10)

\* the weights of goal alignment and constraint adherence exchanged
overallScore_Swapped(goalAlignment, securityCompliance, constraintAdherence) ==
    MathRound(DoubleAdd(DoubleAdd(DoubleMul(DoubleOfInt(goalAlignment), ConstraintWeight),
                                  DoubleMul(DoubleOfInt(securityCompliance), SecurityWeight)),
                        DoubleMul(DoubleOfInt(constraintAdherence), GoalWeight)))

\* Math.round(goalAlignment * 0.4 + securityCompliance * 0.4 + constraintAdherence * 0.2)
overallScore(goalAlignment, securityCompliance, constraintAdherence) ==
    MathRound(DoubleAdd(DoubleAdd(DoubleMul(DoubleOfInt(goalAlignment), GoalWeight),
                                  DoubleMul(DoubleOfInt(securityCompliance), SecurityWeight)),
                        DoubleMul(DoubleOfInt(constraintAdherence), ConstraintWeight)))

letterGrade(score) ==
    IF score >= 90 THEN "A"
    ELSE IF score >= 80 THEN "B"
    ELSE IF score >= 70 THEN "C"
    ELSE IF score >= 60 THEN "D"
    ELSE "F"

Gifts == <<"g", "i", "f", "t", "s">>

Reddit == <<"r", "e", "d", "d", "i", "t">>

\* the positions in CategoryOrder of the categories with a keyword that
\* matches the word
categoriesOfWord(word) ==
    {c \in 1 .. Len(CategoryOrder) : WordInCategory(word, CategoryOrder[c])}

\* the words of the action types and descriptions that the histories below
\* hold, and their categories worked out once
HistoryWords ==
    {Pay, Gifts, Reddit}
        \cup UNION {Range(tokenize(RowTypeChars(t))) :
                        t \in {"send_email", "browse_new_domain", "make_purchase",
                               "anchor_refresh"}}
        \cup UNION {Range(tokenize(AnchorDescription(level, summary))) :
                        level \in {"none", "low", "medium", "high"},
                        summary \in ToolSummaries}

HistoryWordCategories == [w \in HistoryWords |-> categoriesOfWord(w)]

CategoriesOfWord(word) ==
    IF word \in HistoryWords THEN HistoryWordCategories[word]
    ELSE categoriesOfWord(word)

\* the category most rows fall in, "unknown" when no row falls in any; of
\* two categories with the same count the one counted first wins
topActualCategory(rows) ==
    LET cats == 1 .. Len(CategoryOrder)
        tokens == [i \in 1 .. Len(rows) |-> Range(tokenize(RowText(rows[i])))]
        hits == [c \in cats |->
                    {i \in 1 .. Len(rows) :
                        \E t \in tokens[i] : c \in CategoriesOfWord(t)}]
        counted == {c \in cats : hits[c] # {}}
        count == [c \in counted |-> Cardinality(hits[c])]
        first == [c \in counted |-> Nth(hits[c], 1)]
        before(c, d) == first[c] < first[d] \/ (first[c] = first[d] /\ c < d)
    IN  IF counted = {} THEN "unknown"
        ELSE CategoryOrder[CHOOSE c \in counted :
                \A d \in counted \ {c} :
                    \/ count[c] > count[d]
                    \/ count[c] = count[d] /\ before(c, d)]

Highlight(a) ==
    [action_type |-> a.action_type, target |-> a.target, description |-> a.description]

buildHighlights(rows, goalCategories) ==
    LET idx == 1 .. Len(rows)
        aligned == AlignedRows(rows, goalCategories)
        best == {i \in aligned : rows[i].key_was_valid = 1 /\ rows[i].verdict = "pass"}
        bestActions == Pick(rows, {i \in best : Cardinality({j \in best : j <= i}) <= 3})
        driftMoments == Pick(rows, idx \ aligned)
        blockedActions == Pick(rows, {i \in idx : rows[i].verdict = "block"})
        unverifiedRisks ==
            Pick(rows, {i \in idx : rows[i].tier = 1 /\ rows[i].key_was_valid = 0})
    IN  [best_actions |-> [i \in DOMAIN bestActions |-> Highlight(bestActions[i])],
         drift_moments |-> [i \in DOMAIN driftMoments |-> Highlight(driftMoments[i])],
         blocked_actions |->
             [i \in DOMAIN blockedActions |->
                 [action_type |-> blockedActions[i].action_type,
                  target |-> blockedActions[i].target,
                  reason |-> blockedActions[i].reason]],
         unverified_risks |->
             [i \in DOMAIN unverifiedRisks |-> Highlight(unverifiedRisks[i])]]

\* the order of the two rows is not looked at: a block that follows the other
\* row within the window counts as retried
retriedAfterBlock_EitherOrder(rows) ==
    \E a \in 1 .. Len(rows) :
        /\ rows[a].verdict # "block"
        /\ \E b \in 1 .. Len(rows) :
              /\ rows[b].verdict = "block"
              /\ rows[b].action_type = rows[a].action_type
              /\ rows[a].timestamp - rows[b].timestamp <= RetryWindowMs
              /\ rows[b].timestamp - rows[a].timestamp <= RetryWindowMs

\* a row of a blocked type, not blocked itself, follows a blocked row of its
\* type within the window
retriedAfterBlock(rows) ==
    \E a \in 1 .. Len(rows) :
        /\ rows[a].verdict # "block"
        /\ \E b \in 1 .. Len(rows) :
              /\ rows[b].verdict = "block"
              /\ rows[b].action_type = rows[a].action_type
              /\ rows[a].timestamp - rows[b].timestamp > 0
              /\ rows[a].timestamp - rows[b].timestamp <= RetryWindowMs

\* the unverified-actions insight is emitted for every security score below 100
buildInsights_UnverifiedBelow100(alignment, security, adherence, rows, goalCategories) ==
    (IF alignment < 70
     THEN <<[kind |-> "drifted", top |-> topActualCategory(rows),
             goals |-> goalCategories]>>
     ELSE <<>>)
    \o (IF security < 100
        THEN <<[kind |-> "unverified",
                count |-> Cardinality({i \in 1 .. Len(rows) :
                             rows[i].tier <= 2 /\ rows[i].key_was_valid = 0})]>>
        ELSE <<>>)
    \o (IF retriedAfterBlock(rows) THEN <<[kind |-> "retried"]>> ELSE <<>>)
    \o (IF alignment > 85 /\ security > 85 /\ adherence > 85
        THEN <<[kind |-> "strong"]>>
        ELSE <<>>)

\* the insights, each as the kind of its sentence and the values it quotes
buildInsights(alignment, security, adherence, rows, goalCategories) ==
    (IF alignment < 70
     THEN <<[kind |-> "drifted", top |-> topActualCategory(rows),
             goals |-> goalCategories]>>
     ELSE <<>>)
    \o (IF security < 90
        THEN <<[kind |-> "unverified",
                count |-> Cardinality({i \in 1 .. Len(rows) :
                             rows[i].tier <= 2 /\ rows[i].key_was_valid = 0})]>>
        ELSE <<>>)
    \o (IF retriedAfterBlock(rows) THEN <<[kind |-> "retried"]>> ELSE <<>>)
    \o (IF alignment > 85 /\ security > 85 /\ adherence > 85
        THEN <<[kind |-> "strong"]>>
        ELSE <<>>)

\* the only element of a set of one
TheOnly(S) == CHOOSE x \in S : TRUE

\* generateReview(sessionId) at the instant timestamp, on the table as it is;
\* the rows, the three scores and the overall score are each worked out once
generateReview(table, open, cfg, timestamp, sessionId) ==
    LET recent == getRecentActions(table, open, 1)
        resolvedSessionId ==
            IF sessionId # NoSession THEN sessionId
            ELSE IF Len(recent) > 0 THEN recent[1].session_id ELSE ""
        goalCategories == goalCategoriesOf(cfg)
        scored ==
            {[rows |-> rows,
              goalAlignment |-> scoreGoalAlignment(rows, goalCategories),
              securityCompliance |-> scoreSecurityCompliance(rows),
              constraintAdherence |->
                  scoreConstraintAdherence(rows, ConfigGet(cfg, "constraints", <<>>))] :
                rows \in {getActionsBySession(table, open, resolvedSessionId)}}
        summed ==
            {[s |-> s,
              overall |-> overallScore(s.goalAlignment, s.securityCompliance,
                                       s.constraintAdherence)] : s \in scored}
    IN  TheOnly(
          {LET rows == r.s.rows
               count(P(_)) == Cardinality({i \in 1 .. Len(rows) : P(rows[i])})
           IN  [timestamp |-> timestamp,
                session_id |-> resolvedSessionId,
                overall_grade |-> letterGrade(r.overall),
                overall_score |-> r.overall,
                scores |-> [goal_alignment |-> r.s.goalAlignment,
                            security_compliance |-> r.s.securityCompliance,
                            constraint_adherence |-> r.s.constraintAdherence],
                action_summary |->
                    [total |-> Len(rows),
                     verified |-> count(LAMBDA a : a.key_was_valid = 1),
                     blocked |-> count(LAMBDA a : a.verdict = "block"),
                     tier_breakdown |-> [tier1 |-> count(LAMBDA a : a.tier = 1),
                                         tier2 |-> count(LAMBDA a : a.tier = 2),
                                         tier3 |-> count(LAMBDA a : a.tier = 3)]],
                highlights |-> buildHighlights(rows, goalCategories),
                insights |-> buildInsights(r.s.goalAlignment, r.s.securityCompliance,
                                           r.s.constraintAdherence, rows,
                                           goalCategories)] :
              r \in summed})

\* INSERT INTO reviews
saveReview(table, review) ==
    Append(table,
           [timestamp |-> review.timestamp, session_id |-> review.session_id,
            overall_grade |-> review.overall_grade,
            overall_score |-> review.overall_score,
            goal_alignment_score |-> review.scores.goal_alignment,
            security_compliance_score |-> review.scores.security_compliance,
            constraint_adherence_score |-> review.scores.constraint_adherence,
            total_actions |-> review.action_summary.total,
            verified_actions |-> review.action_summary.verified,
            blocked_actions |-> review.action_summary.blocked,
            highlights |-> review.highlights, insights |-> review.insights])

\* .slice(0, 10)
InsightsKept == 10

\* the lines of a session block: the "## Session Review" line, one line per
\* insight, an empty line
InsightsEntry(review) ==
    <<[kind |-> "header", date |-> TodayAt(review.timestamp),
       grade |-> review.overall_grade, score |-> review.overall_score]>>
    \o [i \in 1 .. Len(review.insights) |->
            [kind |-> "insight", insight |-> review.insights[i]]]
    \o <<[kind |-> "blank"]>>

\* combined.split(/(?=## Session Review)/): the positions where a block starts
BlockStarts(lines) ==
    {i \in 1 .. Len(lines) : i = 1 \/ lines[i].kind = "header"}

\* one block too many is kept
TrimInsights_KeepEleven(combined) ==
    LET starts == BlockStarts(combined)
    IN  IF Cardinality(starts) <= InsightsKept + 1 THEN combined
        ELSE SubSeq(combined, 1, Nth(starts, InsightsKept + 2) - 1)

\* blocks.filter((b) => b.trim().length > 0).slice(0, 10).join("")
TrimInsights(combined) ==
    LET starts == BlockStarts(combined)
    IN  IF Cardinality(starts) <= InsightsKept THEN combined
        ELSE SubSeq(combined, 1, Nth(starts, InsightsKept + 1) - 1)

\* the outcomes of the file system calls of writeInsights
FsOutcomes == {"ok", "read_fails", "write_fails"}

\* writeInsights: the new content of the file, or an exception that leaves
\* the file as it is
writeInsights(file, review, fs) ==
    IF fs = "ok"
    THEN [threw |-> FALSE, file |-> TrimInsights(InsightsEntry(review) \o file)]
    ELSE [threw |-> TRUE, file |-> file]

(***************************************************************************)
(* Inputs of the review                                                    *)
(***************************************************************************)
\* "no gifts"
NoGiftsConstraint == <<"n", "o", " ", "g", "i", "f", "t", "s">>

\* the kinds of rows the tools leave: a verified and passed mail, a blocked
\* mail, an unverified tier-1 mail that was logged, an unverified tier-2
\* visit that was logged, a verified and passed purchase
MailPass ==
    [action_type |-> "send_email", description |-> Pay, verdict |-> "pass",
     key_was_valid |-> 1, tier |-> 0]

MailBlock ==
    [action_type |-> "send_email", description |-> Gifts, verdict |-> "block",
     key_was_valid |-> 0, tier |-> 0]

MailLogged ==
    [action_type |-> "send_email", description |-> Pay, verdict |-> "success",
     key_was_valid |-> 0, tier |-> 1]

BrowseLogged ==
    [action_type |-> "browse_new_domain", description |-> Reddit,
     verdict |-> "success", key_was_valid |-> 0, tier |-> 2]

PurchasePass ==
    [action_type |-> "make_purchase", description |-> Pay, verdict |-> "pass",
     key_was_valid |-> 1, tier |-> 0]

RowKinds == {MailPass, MailBlock, MailLogged, BrowseLogged, PurchasePass}

\* the row of a kind, stored at an instant in a session
At(kind, timestamp, session) ==
    kind @@ [timestamp |-> timestamp, session_id |-> session, target |-> Bob,
             amount |-> 0, reason |-> NoReason]

\* the time between two rows: none, a millisecond, three minutes, the retry
\* window, a millisecond more
Gaps == {0, 1, 3 * 60 * 1000, RetryWindowMs, RetryWindowMs + 1}

\* every table of at most two rows
PairTables ==
    {<<>>} \cup {<<At(k, 0, sessionStart)>> : k \in RowKinds}
           \cup {<<At(k1, 0, sessionStart), At(k2, g, sessionStart)>> :
                    k1 \in RowKinds, k2 \in RowKinds, g \in Gaps}

\* n rows a second apart, the first a of one kind and the others of another
MixTable(first, a, other, n) ==
    [i \in 1 .. n |-> At(IF i <= a THEN first ELSE other, i * 1000, sessionStart)]

MixTables ==
    {MixTable(MailPass, a, PurchasePass, n) : a \in 0 .. MaxReviewed, n \in 3 .. MaxReviewed}
        \cup {MixTable(k, n, k, n) : k \in {MailBlock, MailLogged, BrowseLogged},
                                     n \in 3 .. MaxReviewed}

\* n rows a minute apart: a blocked mail, a passed mail, a blocked mail, ...
RetryTable(n) ==
    [i \in 1 .. n |->
        At(IF i % 2 = 1 THEN MailBlock ELSE MailPass, i * 60 * 1000, sessionStart)]

RetryTables == {RetryTable(n) : n \in 3 .. MaxReviewed}

\* rows of an earlier run of the server before those of the current one
TwoSessionTables ==
    {<<At(MailBlock, 0, "earlier"), At(MailPass, 1000, "earlier")>> \o t :
        t \in {<<>>, <<At(PurchasePass, 2000, sessionStart)>>,
               <<At(MailPass, 2000, sessionStart)>>}}

ReviewTables == PairTables \cup MixTables \cup RetryTables \cup TwoSessionTables

\* "avoid email gifts"
NoMailedGiftsConstraint ==
    <<"a", "v", "o", "i", "d", " ", "e", "m", "a", "i", "l", " ", "g", "i",
      "f", "t", "s">>

\* the defaults, other goals with a constraint, and two constraints that the
\* same rows fall under
ReviewConfigs ==
    {DefaultConfig,
     DefaultConfig @@ [goalCategories |-> <<"finance", "browsing">>,
                       constraints |-> <<NoGiftsConstraint>>],
     DefaultConfig @@ [constraints |-> <<NoGiftsConstraint, NoMailedGiftsConstraint>>]}

\* the review of an empty session and the review of three unverified visits
SampleReviews ==
    {generateReview(<<>>, TRUE, DefaultConfig, 0, NoSession),
     generateReview(MixTable(BrowseLogged, 3, BrowseLogged, 3), TRUE,
                    DefaultConfig, 0, NoSession)}

\* an insights file that a review was written to before
ExistingInsights ==
    InsightsEntry(generateReview(<<>>, TRUE, DefaultConfig, 0, NoSession))

(***************************************************************************)
(* The review tool (index.js) and the store operations as steps            *)
(***************************************************************************)
\* the session_id argument of a review: omitted, or a session of the table
ReviewSessions == {NoSession, "earlier"}

\* an exception leaves the handler: the caller gets an error, not the scorecard
Failure == [error |-> TRUE]

\* the carapace_review handler on its arguments, with the scorecard that
\* generateReview gave it and the outcome fs of the file system calls it makes
ReviewWith(sessionReview, session_id, save, fs) ==
                LET stored == save /\ db
                    written == writeInsights(insightsFile, sessionReview, fs)
                    threw == save /\ (~db \/ written.threw)
                IN  /\ reviews' = IF stored THEN saveReview(reviews, sessionReview)
                                  ELSE reviews
                    /\ insightsFile' = IF stored THEN written.file ELSE insightsFile
                    /\ ret' = [op |-> "carapace_review", session_id |-> session_id,
                               save |-> save, fs |-> fs, threw |-> threw,
                               review |-> sessionReview,
                               returned |-> IF threw THEN Failure ELSE sessionReview]
                    /\ UNCHANGED <<now, secret, rotationMinutes, config,
                                   dailySpendUsed, dailySpendResetDate, spentToday,
                                   agentKey, actions, db, currentDriftLevel,
                                   lastRefresh>>

ReviewCall(session_id, save, fs) ==
    \E sessionReview \in {generateReview(actions, db, config, now, session_id)} :
        ReviewWith(sessionReview, session_id, save, fs)

carapace_review ==
    \E session_id \in ReviewSessions :
        \E sessionReview \in {generateReview(actions, db, config, now, session_id)} :
            \E save \in BOOLEAN, fs \in FsOutcomes :
                /\ ~save => fs = "ok"
                /\ fs = "read_fails" => insightsFile # <<>>
                /\ save => Len(reviews) < MaxSaved
                /\ ReviewWith(sessionReview, session_id, save, fs)

\* SecurityEngine.getStatus(): the spend used is read before
\* getDailySpendRemaining() resets it on a new day
securityGetStatus ==
    LET remaining == getDailySpendRemaining(config, SpendState, Today)
        ageMinutes == (now - getCurrentWindowIndex * rotationMinutes * 60 * 1000)
                          \div 60000
    IN  [keyValid |-> TRUE,
         keyAgeMinutes |-> ageMinutes,
         keyRotatesInMinutes |-> Max(0, rotationMinutes - ageMinutes),
         dailySpendLimit |-> config.daily,
         dailySpendUsed |-> dailySpendUsed,
         dailySpendRemaining |-> remaining.value,
         st |-> remaining.st]

\* the level is always the one assessDrift stored last
anchorGetStatus_InitialLevel == [lastRefresh |-> lastRefresh,
                                 minutesSinceRefresh |->
                                     IF lastRefresh = NoRefresh THEN -1
                                     ELSE (now - lastRefresh) \div 60000,
                                 currentDriftLevel |-> "none"]

\* AnchorEngine.getStatus()
anchorGetStatus ==
    [lastRefresh |-> lastRefresh,
     minutesSinceRefresh |-> IF lastRefresh = NoRefresh THEN -1
                             ELSE (now - lastRefresh) \div 60000,
     currentDriftLevel |-> currentDriftLevel]

\* the carapace_status handler
carapace_status ==
    \E sessionStats \in {getSessionStats(actions, db)} :
        LET securityState == securityGetStatus
            anchorState == anchorGetStatus
        IN  /\ dailySpendUsed' = securityState.st.used
            /\ dailySpendResetDate' = securityState.st.resetDate
            /\ ret' = [op |-> "carapace_status",
                       security |-> [daily_spend_limit |-> securityState.dailySpendLimit,
                                     daily_spend_used |-> securityState.dailySpendUsed,
                                     daily_spend_remaining |->
                                         securityState.dailySpendRemaining,
                                     key_age_minutes |-> securityState.keyAgeMinutes],
                       anchor |-> [last_refresh |-> anchorState.lastRefresh,
                                   minutes_since_refresh |->
                                       anchorState.minutesSinceRefresh,
                                   drift_level |-> anchorState.currentDriftLevel],
                       session |-> sessionStats,
                       health |-> IF sessionStats.unverifiedTier1 > 0 THEN "WARNING"
                                  ELSE IF sessionStats.blockedActions > 3 THEN "ALERT"
                                  ELSE "HEALTHY"]
            /\ UNCHANGED <<now, secret, rotationMinutes, config, spentToday, agentKey,
                           actions, db, reviews, currentDriftLevel, lastRefresh,
                           insightsFile>>

\* LogStore.initialize()
Initialize ==
    /\ ~db
    /\ db' = TRUE
    /\ ret' = [op |-> "initialize"]
    /\ UNCHANGED <<now, secret, rotationMinutes, config, dailySpendUsed,
                   dailySpendResetDate, spentToday, agentKey, actions, reviews,
                   currentDriftLevel, lastRefresh, insightsFile>>

\* what a call of a store operation leaves in ret: whether the database was
\* open, whether the call threw, and what it returned
Outcome(op, threw, value) ==
    [op |-> op, open |-> db, threw |-> threw, value |-> value]

StoreEntries ==
    {[action_type |-> "send_email", target |-> Bob, amount |-> 0,
      description |-> Pay, verdict |-> "pass", reason |-> Reason("permitted", ""),
      key_was_valid |-> TRUE, tier |-> 0],
     [action_type |-> "make_purchase", target |-> Bob, amount |-> 50,
      description |-> Pay, verdict |-> "block", reason |-> Reason("logged", "failure"),
      key_was_valid |-> FALSE, tier |-> 1]}

LogAction ==
    \E entry \in StoreEntries :
        /\ db => Len(actions) < MaxHistory
        /\ actions' = IF db THEN logAction(entry @@ [timestamp |-> now]) ELSE actions
        /\ ret' = Outcome("logAction", ~db, IF db THEN Len(actions) + 1 ELSE 0)
        /\ UNCHANGED <<now, secret, rotationMinutes, config, dailySpendUsed,
                       dailySpendResetDate, spentToday, agentKey, db, reviews,
                       currentDriftLevel, lastRefresh, insightsFile>>

SaveReview ==
    LET review == generateReview(actions, db, config, now, NoSession)
    IN  /\ db => Len(reviews) < MaxSaved
        /\ reviews' = IF db THEN saveReview(reviews, review) ELSE reviews
        /\ ret' = Outcome("saveReview", ~db, IF db THEN Len(reviews) + 1 ELSE 0)
        /\ UNCHANGED <<now, secret, rotationMinutes, config, dailySpendUsed,
                       dailySpendResetDate, spentToday, agentKey, actions, db,
                       currentDriftLevel, lastRefresh, insightsFile>>

\* a query: the store and everything else stay as they are
Query(op, value) ==
    /\ ret' = Outcome(op, FALSE, value)
    /\ UNCHANGED <<now, secret, rotationMinutes, config, dailySpendUsed,
                   dailySpendResetDate, spentToday, agentKey, actions, db, reviews,
                   currentDriftLevel, lastRefresh, insightsFile>>

GetActionsBySession ==
    Query("getActionsBySession", getActionsBySession(actions, db, sessionStart))

GetRecentActions ==
    \E limit \in {1, 50} :
        Query("getRecentActions", getRecentActions(actions, db, limit))

GetSessionStats == Query("getSessionStats", getSessionStats(actions, db))

GenerateReview ==
    Query("generateReview", generateReview(actions, db, config, now, NoSession))

\* successive reviews written to the insights file; ret keeps every entry
\* written so far, newest first
WriteInsights ==
    \E review \in SampleReviews :
        LET stamped == [review EXCEPT !.timestamp = now]
            written == writeInsights(insightsFile, stamped, "ok")
            sofar == IF ret.op = "writeInsights" THEN ret.entries ELSE <<>>
        IN  /\ Len(sofar) < MaxWrites
            /\ insightsFile' = written.file
            /\ ret' = [op |-> "writeInsights",
                       entries |-> <<InsightsEntry(stamped)>> \o sofar]
            /\ UNCHANGED <<now, secret, rotationMinutes, config, dailySpendUsed,
                           dailySpendResetDate, spentToday, agentKey, actions, db,
                           reviews, currentDriftLevel, lastRefresh>>

(***************************************************************************)
(* Specifications                                                          *)
(***************************************************************************)
\* state shared by every specification: the server after main() has run
InitCommon ==
    /\ now \in {0, TickMs}
    /\ rotationMinutes \in RotationChoices
    /\ agentKey = NoIssue
    /\ actions = <<>>
    /\ db = TRUE
    /\ reviews = <<>>
    /\ currentDriftLevel = "none"
    /\ lastRefresh = NoRefresh
    /\ insightsFile = <<>>
    /\ spentToday = 0
    /\ ret = NoCall

\* security.initialize()
InitSpend ==
    /\ dailySpendUsed = 0
    /\ dailySpendResetDate = Today

\* the rotating key: any secret, any rotation period
InitKey ==
    /\ InitCommon
    /\ InitSpend
    /\ secret \in Secrets
    /\ config \in {MakeConfig(l, NoLists, NoLists, {}, <<>>) :
                      l \in {x \in LimitChoices : x.perAction = 50}}

NextKey == Tick \/ GenerateKey \/ ValidateKey

SpecKey == InitKey /\ [][NextKey]_vars

OneSecret == [w \in Windows |-> (w % NumKeys) + 1]

\* the spend counter: recordSpend and checkRules as the days pass
InitSpendSpec ==
    /\ InitCommon
    /\ InitSpend
    /\ rotationMinutes = 720
    /\ secret = OneSecret
    /\ config \in ServerConfigs

NextSpend == Tick \/ RecordSpend \/ CheckPurchase

SpecSpend == InitSpendSpec /\ [][NextSpend]_vars

\* checkRules on every configuration, entered with any spend state the
\* engine can be in on the second day of a run
InitRules ==
    /\ now = 2 * TickMs
    /\ rotationMinutes = 720
    /\ agentKey = NoIssue
    /\ actions = <<>>
    /\ db = TRUE
    /\ reviews = <<>>
    /\ currentDriftLevel = "none"
    /\ lastRefresh = NoRefresh
    /\ insightsFile = <<>>
    /\ ret = NoCall
    /\ secret = OneSecret
    /\ config \in RuleConfigs
    /\ \E st \in SpendChoices(TodayAt(2 * TickMs)) :
          /\ dailySpendUsed = st.used
          /\ dailySpendResetDate = st.resetDate
    /\ spentToday = IF dailySpendResetDate = Today THEN dailySpendUsed ELSE 0

NextRules == ret = NoCall /\ CheckRules

SpecRules == InitRules /\ [][NextRules]_vars

\* the server: the tools called in any order as time passes
Init ==
    /\ InitCommon
    /\ InitSpend
    /\ secret = OneSecret
    /\ config \in {c \in ServerConfigs : c.customRules = <<>>}

Next == Tick \/ carapace_verify \/ carapace_anchor \/ carapace_log

Spec == Init /\ [][Next]_vars

\* keys handed out by carapace_verify and handed back to carapace_log as the
\* windows pass
NextToken == Tick \/ carapace_verify \/ carapace_log

SpecToken == Init /\ [][NextToken]_vars

\* the drift assessor under every list of goal categories, configured or not
InitDrift ==
    /\ InitCommon
    /\ InitSpend
    /\ now = 0
    /\ rotationMinutes = 720
    /\ secret = OneSecret
    /\ config \in {DefaultConfig}
                     \cup {DefaultConfig @@ [goalCategories |-> g] :
                              g \in GoalCategoryChoices}

NextDrift == AssessDrift

SpecDrift == InitDrift /\ [][NextDrift]_vars

\* the log store from its construction on: initialize() may come late
InitStore ==
    /\ now = 0
    /\ rotationMinutes = 720
    /\ agentKey = NoIssue
    /\ actions = <<>>
    /\ db = FALSE
    /\ reviews = <<>>
    /\ currentDriftLevel = "none"
    /\ lastRefresh = NoRefresh
    /\ insightsFile = <<>>
    /\ spentToday = 0
    /\ ret = NoCall
    /\ InitSpend
    /\ secret = OneSecret
    /\ config \in ReviewConfigs

NextStore ==
    \/ Initialize
    \/ LogAction
    \/ SaveReview
    \/ GetActionsBySession
    \/ GetRecentActions
    \/ GetSessionStats
    \/ GenerateReview

SpecStore == InitStore /\ [][NextStore]_vars

\* one review of any table the tools can have left
InitReview ==
    /\ now = TickMs
    /\ rotationMinutes = 720
    /\ agentKey = NoIssue
    /\ actions \in ReviewTables
    /\ db = TRUE
    /\ reviews = <<>>
    /\ currentDriftLevel = "none"
    /\ lastRefresh = NoRefresh
    /\ insightsFile \in {<<>>, ExistingInsights}
    /\ spentToday = 0
    /\ ret = NoCall
    /\ InitSpend
    /\ secret = OneSecret
    /\ config \in ReviewConfigs

NextReview == ret = NoCall /\ carapace_review

SpecReview == InitReview /\ [][NextReview]_vars

\* the insights file from its first write on
InitInsights ==
    /\ InitCommon
    /\ InitSpend
    /\ now = 0
    /\ rotationMinutes = 720
    /\ secret = OneSecret
    /\ config = DefaultConfig

NextInsights == WriteInsights

SpecInsights == InitInsights /\ [][NextInsights]_vars

\* the five tools called in any order within one window and one day
InitTools ==
    /\ InitCommon
    /\ now = 0
    /\ rotationMinutes = 720
    /\ InitSpend
    /\ secret = OneSecret
    /\ config = DefaultConfig

NextTools ==
    \/ \E action \in VerifyActions :
           Len(actions) < MaxHistory /\ VerifyCall(action, NoKey)
    \/ \E in \in LogInputs :
           /\ Len(actions) < MaxHistory
           /\ spentToday + in.amount <= MaxRecorded
           /\ LogCall(in, generateKey)
    \/ \E context_summary \in ToolSummaries :
           /\ context_summary # <<>> => Len(actions) < MaxHistory
           /\ AnchorCall(context_summary)
    \/ carapace_status
    \/ ReviewCall(NoSession, FALSE, "ok")

SpecTools == InitTools /\ [][NextTools]_vars

\* purchases on one day under constant limits: the agent logs a purchase only
\* right after carapace_verify did not block a purchase of the same amount
PairedAmounts == {0, 10, 30, 60}

InitPaired ==
    /\ InitCommon
    /\ now = 0
    /\ rotationMinutes = 720
    /\ InitSpend
    /\ secret = OneSecret
    /\ config \in {c \in ServerConfigs : c.customRules = <<>>}

NextPaired ==
    \/ \E action \in {a \in Actions :
                        /\ a.action_type = "make_purchase"
                        /\ a.target = Bob
                        /\ a.amount \in PairedAmounts} :
           Len(actions) < MaxPaired /\ VerifyCall(action, NoKey)
    \/ \E amount \in PairedAmounts :
           /\ Len(actions) < MaxPaired
           /\ amount > 0 => /\ ret.op = "carapace_verify"
                            /\ ret.action.amount = amount
                            /\ ret.verdict # "block"
           /\ LogCall([action_type |-> "make_purchase", target |-> Bob,
                       description |-> Pay, result |-> "success", tier |-> 1,
                       amount |-> amount],
                      generateKey)

SpecPaired == InitPaired /\ [][NextPaired]_vars

(***************************************************************************)
(* Properties                                                              *)
(***************************************************************************)
IsCheck == ret.op = "checkRules"

\* C1: a key generated in window w is accepted by validateKey at every instant
\* of window w and of window w+1, and rejected from window w+2 on whenever the
\* keys of the windows then compared differ from it.
C1_KeyAcceptedForTwoWindows ==
    (ret.op = "validateKey" /\ ret.held.key # NoKey /\ ret.key = ret.held.key) =>
        LET w == ret.held.window
            c == ret.window
        IN  /\ c \in {w, w + 1} => ret.valid
            /\ (/\ c >= w + 2
                /\ computeKey(w) # computeKey(c)
                /\ computeKey(w) # computeKey(c - 1)) => ~ret.valid

\* the held key presented one window after its own and accepted
C1_Witness ==
    /\ ret.op = "validateKey"
    /\ ret.held.key # NoKey
    /\ ret.key = ret.held.key
    /\ ret.window = ret.held.window + 1
    /\ computeKey(ret.window) # ret.key
    /\ ret.valid

\* C2: carapace_verify called with no current_key, or with one that
\* validateKey rejects, answers with verdict block.
C2_NoValidKeyBlocks ==
    (ret.op = "carapace_verify" /\ ~ret.keyValid) => ret.verdict = "block"

\* C3: an action whose amount is above the per-action limit is not allowed,
\* whatever the daily spend, the action type, the target and the other rules.
C3_PerActionLimitBlocks ==
    (IsCheck /\ ret.action.amount > config.perAction) => ~ret.result.allowed

\* above the per-action limit with the whole daily budget left and no other
\* rule configured against the action
C3_Witness ==
    /\ IsCheck
    /\ ret.action.amount > config.perAction
    /\ ret.spent = 0
    /\ ret.action.amount <= config.daily
    /\ config.blockedActions = {}
    /\ config.customRules = <<>>
    /\ ~ret.result.allowed

BlockedBySpending ==
    ~ret.result.allowed /\ ret.result.rulesChecked = <<"spending_limit">>

\* C4: with S recorded on the current date, an action with
\* 0 < amount <= perAction is blocked by the spending rule exactly when
\* S + amount > daily; reaching the daily limit exactly is not blocked.
C4_DailyLimitExact ==
    (IsCheck /\ ret.action.amount > 0 /\ ret.action.amount <= config.perAction) =>
        (BlockedBySpending <=> ret.spent + ret.action.amount > config.daily)

\* recorded spend and the amount add up to the daily limit and the action passes
C4_Witness ==
    /\ IsCheck
    /\ ret.spent > 0
    /\ ret.action.amount > 0
    /\ ret.spent + ret.action.amount = config.daily
    /\ ret.result.allowed

\* C5: once the engine has seen the current date its total is the spend
\* recorded on that date alone, and every checkRules result compares and
\* reports against that total only.
C5_RolloverResetsTotal ==
    /\ dailySpendResetDate = Today => dailySpendUsed = spentToday
    /\ IsCheck =>
          /\ ret.result.st.resetDate = ret.today
          /\ ret.result.st.used = ret.spent
          /\ ret.result.dailySpendRemaining = Max(0, config.daily - ret.spent)
          /\ ret.result.reason.kind = "daily_limit" =>
                ret.spent + ret.action.amount > config.daily

\* a check on a new date that yesterday's total would have blocked
C5_Witness ==
    /\ IsCheck
    /\ ret.before.resetDate # ret.today
    /\ ret.before.used + ret.action.amount > config.daily
    /\ ret.action.amount <= config.perAction
    /\ ret.result.allowed
    /\ ret.result.dailySpendRemaining = config.daily

\* the target contains the entry, case-insensitively
Contains(target, entry) == includes(toLowerCase(target), toLowerCase(entry))

\* the allow/block semantics of a contact or domain list
ListBlocks(lists, target) ==
    \/ /\ lists.mode = "allowlist"
       /\ Len(lists.allowed) > 0
       /\ \A i \in 1 .. Len(lists.allowed) : ~Contains(target, lists.allowed[i])
    \/ \E i \in 1 .. Len(lists.blocked) : Contains(target, lists.blocked[i])

MatchingRules(action) ==
    {i \in 1 .. Len(config.customRules) : RuleMatches(config.customRules[i], action)}

\* no contact, domain, action-type or custom rule matches the action
NoOtherRuleMatches(action) ==
    /\ action.action_type \in CONTACT_TYPES => ~ListBlocks(config.contacts, action.target)
    /\ action.action_type \in DOMAIN_TYPES => ~ListBlocks(config.domains, action.target)
    /\ action.action_type \notin config.blockedActions
    /\ MatchingRules(action) = {}

\* the spending rule blocks the action, given the spend recorded today
SpendingBlocks(action, spent) ==
    /\ action.amount > 0
    /\ \/ action.amount > config.perAction
       \/ spent + action.amount > config.daily

\* C6: an action that no other rule matches and that is within the per-action
\* and daily limits is allowed, with confirmation when amount > warnAbove and
\* without when 0 < amount <= warnAbove; with limits 50/200/20 and nothing
\* spent, 30 needs confirmation, 10 does not, 60 is blocked.
C6_WarnThreshold ==
    (IsCheck /\ NoOtherRuleMatches(ret.action)) =>
        LET amount == ret.action.amount
            r == ret.result
        IN  /\ (amount <= config.perAction /\ ret.spent + amount <= config.daily) =>
                  /\ r.allowed
                  /\ amount > config.warnAbove => r.requiresConfirmation
                  /\ (0 < amount /\ amount <= config.warnAbove) => ~r.requiresConfirmation
            /\ (/\ config.perAction = 50
                /\ config.daily = 200
                /\ config.warnAbove = 20
                /\ ret.spent = 0) =>
                  /\ amount = 30 => (r.allowed /\ r.requiresConfirmation)
                  /\ amount = 10 => (r.allowed /\ ~r.requiresConfirmation)
                  /\ amount = 60 => ~r.allowed

\* an amount equal to the warning threshold passes without confirmation
C6_Witness ==
    /\ IsCheck
    /\ NoOtherRuleMatches(ret.action)
    /\ ret.action.amount = config.warnAbove
    /\ ret.action.amount > 0
    /\ ret.result.allowed
    /\ ~ret.result.requiresConfirmation
    /\ ret.result.reason = Reason("permitted", "")

RuleOrder ==
    <<"spending_limit", "contact_rules", "domain_rules", "action_permissions",
      "custom_rules">>

OrderIndex(name) == CHOOSE i \in 1 .. Len(RuleOrder) : RuleOrder[i] = name

\* the rule a blocking reason comes from
RuleOfReason(kind) ==
    CASE kind \in {"per_action_limit", "daily_limit"} -> "spending_limit"
      [] kind \in {"contact_not_allowed", "contact_blocked"} -> "contact_rules"
      [] kind \in {"domain_not_allowed", "domain_blocked"} -> "domain_rules"
      [] kind = "action_disabled" -> "action_permissions"
      [] kind \in {"custom", "custom_block_default"} -> "custom_rules"
      [] OTHER -> "none"

\* C7: rulesChecked is a subsequence of the fixed rule order, and in a blocked
\* result its last entry is the rule the blocking reason comes from.
C7_FixedOrderShortCircuit ==
    IsCheck =>
        LET checked == ret.result.rulesChecked
        IN  /\ Range(checked) \subseteq Range(RuleOrder)
            /\ \A i \in 1 .. Len(checked) - 1 :
                  OrderIndex(checked[i]) < OrderIndex(checked[i + 1])
            /\ ~ret.result.allowed =>
                  /\ Len(checked) > 0
                  /\ Last(checked) = RuleOfReason(ret.result.reason.kind)

\* blocked by the action-type rule after the spending and contact rules passed
C7_Witness ==
    /\ IsCheck
    /\ ~ret.result.allowed
    /\ ret.result.rulesChecked = <<"spending_limit", "contact_rules", "action_permissions">>
    /\ ret.result.reason.kind = "action_disabled"
    /\ Len(config.customRules) > 0

BlockedBy(rule) ==
    /\ ~ret.result.allowed
    /\ Len(ret.result.rulesChecked) > 0
    /\ Last(ret.result.rulesChecked) = rule

\* C8: the contact rule runs only for send_message and send_email, the domain
\* rule only for browse_new_domain and api_write, and for those types it
\* blocks exactly when the allowlist (in allowlist mode, if non-empty) holds no
\* entry the target contains or the blocklist holds one.
C8_ListRules ==
    IsCheck =>
        LET a == ret.action
            reached == ~SpendingBlocks(a, ret.spent)
        IN  /\ "contact_rules" \in Range(ret.result.rulesChecked) <=>
                  (a.action_type \in {"send_message", "send_email"} /\ reached)
            /\ "domain_rules" \in Range(ret.result.rulesChecked) <=>
                  (a.action_type \in {"browse_new_domain", "api_write"} /\ reached)
            /\ BlockedBy("contact_rules") <=>
                  /\ a.action_type \in {"send_message", "send_email"}
                  /\ reached
                  /\ ListBlocks(config.contacts, a.target)
            /\ BlockedBy("domain_rules") <=>
                  /\ a.action_type \in {"browse_new_domain", "api_write"}
                  /\ reached
                  /\ ListBlocks(config.domains, a.target)

\* allowlist mode, the target contains an allowed and a blocked entry: blocked
C8_Witness ==
    /\ IsCheck
    /\ ret.action.action_type = "send_email"
    /\ config.contacts.mode = "allowlist"
    /\ \E i \in 1 .. Len(config.contacts.allowed) :
          Contains(ret.action.target, config.contacts.allowed[i])
    /\ \E i \in 1 .. Len(config.contacts.blocked) :
          Contains(ret.action.target, config.contacts.blocked[i])
    /\ BlockedBy("contact_rules")
    /\ ret.result.reason.kind = "contact_blocked"

MinOf(set) == CHOOSE x \in set : \A y \in set : x <= y

MaxOf(set) == CHOOSE x \in set : \A y \in set : x >= y

\* C9: when the custom rules are reached, the first matching block rule ends
\* the evaluation with allowed=false and its reason, also after a warning; a
\* matching warn rule sets requiresConfirmation and the rules after it are
\* still evaluated.
C9_CustomRulesInOrder ==
    (IsCheck /\ "custom_rules" \in Range(ret.result.rulesChecked)) =>
        LET rules == config.customRules
            r == ret.result
            blocking == {i \in MatchingRules(ret.action) : rules[i].then = "block"}
            warning == {i \in MatchingRules(ret.action) : rules[i].then = "warn"}
            spendingWarn == ret.action.amount > 0 /\ ret.action.amount > config.warnAbove
        IN  IF blocking # {}
            THEN /\ ~r.allowed
                 /\ ~r.requiresConfirmation
                 /\ r.reason = BlockReason(rules[MinOf(blocking)])
            ELSE /\ r.allowed
                 /\ r.requiresConfirmation <=> (spendingWarn \/ warning # {})
                 /\ warning # {} => r.reason = WarnReason(rules[MaxOf(warning)])

\* a matching warn rule, after the spending warning, followed by a matching
\* block rule: blocked with the block rule's reason
C9_Witness ==
    /\ IsCheck
    /\ config.customRules = <<RuleWarnAmount, RuleBlockTarget>>
    /\ MatchingRules(ret.action) = {1, 2}
    /\ ret.action.amount > config.warnAbove
    /\ "spending_limit" \in Range(ret.result.rulesChecked)
    /\ ~ret.result.allowed
    /\ ret.result.reason = Reason("custom", "no mail to eve")

\* rules whose operator the switch does not know
MalformedRules ==
    {[r EXCEPT !.operator = op] :
        r \in {RuleBlockTarget, RuleWarnSmall},
        op \in {"not_contains", "Equals", ""}}

InsertAt(seq, p, x) == SubSeq(seq, 1, p) \o <<x>> \o SubSeq(seq, p + 1, Len(seq))

\* C10: adding a rule with an unknown operator anywhere in the custom rule
\* list leaves allowed, requiresConfirmation and reason of the result unchanged.
C10_UnknownOperatorIgnored ==
    IsCheck =>
        \A bad \in MalformedRules, p \in 0 .. Len(config.customRules) :
            LET with == checkRulesIn(
                            [config EXCEPT !.customRules = InsertAt(@, p, bad)],
                            ret.before, ret.today, ret.action)
            IN  /\ with.allowed = ret.result.allowed
                /\ with.requiresConfirmation = ret.result.requiresConfirmation
                /\ with.reason = ret.result.reason

\* the configured list itself holds a rule with an unknown operator whose
\* condition the target would satisfy under contains, and the action passes
C10_Witness ==
    /\ IsCheck
    /\ config.customRules = <<RuleUnknownOperator>>
    /\ Contains(ret.action.target, RuleUnknownOperator.value.s)
    /\ ret.result.allowed
    /\ ret.result.reason = Reason("permitted", "")
    /\ "custom_rules" \in Range(ret.result.rulesChecked)


\* C11: after any sequence of carapace_verify, carapace_log and
\* carapace_anchor calls, every row of the action history has a verdict among
\* pass, warn, block and a tier among 1, 2, 3.
C11_VerdictAndTierInRange ==
    \A i \in 1 .. Len(actions) :
        /\ actions[i].verdict \in {"pass", "warn", "block"}
        /\ actions[i].tier \in {1, 2, 3}

\* C12: a carapace_verify call on an unchanged calendar date leaves the action
\* history, the daily spend state and the drift level as they were.
C12_VerifyModifiesNothing ==
    [][(carapace_verify /\ dailySpendResetDate = Today) =>
          /\ actions' = actions
          /\ dailySpendUsed' = dailySpendUsed
          /\ dailySpendResetDate' = dailySpendResetDate
          /\ currentDriftLevel' = currentDriftLevel]_vars


\* the operations of the store and the review engine that read or write the
\* action history
HistoryOperations ==
    {"logAction", "saveReview", "getActionsBySession", "getRecentActions",
     "getSessionStats", "generateReview"}

\* C13: every operation that depends on the action history, called before the
\* store is initialized, surfaces an error: none of logAction, saveReview,
\* getActionsBySession, getRecentActions, getSessionStats and generateReview
\* returns an empty history or a scorecard.
C13_UninitializedSurfacesError ==
    (ret.op \in HistoryOperations /\ ~ret.open) => ret.threw


\* C14: a failure to read or write the insights file never fails
\* carapace_review: the scorecard is returned, the review stays saved, and the
\* failure is swallowed.
C14_InsightsFailureSwallowed ==
    (ret.op = "carapace_review" /\ ret.save /\ ret.fs # "ok") =>
        /\ ~ret.threw
        /\ ret.returned = ret.review
        /\ Len(reviews) = 1


\* the lines of the blocks, one block after the other
RECURSIVE JoinBlocks(_)
JoinBlocks(blocks) ==
    IF blocks = <<>> THEN <<>> ELSE Head(blocks) \o JoinBlocks(Tail(blocks))

\* C15: starting from an empty insights log, after n calls of writeInsights
\* the file holds exactly min(n, 10) session blocks, the newest first; the
\* eleventh write evicts exactly the oldest block.
C15_InsightsKeepTenNewest ==
    ret.op = "writeInsights" =>
        LET n == Len(ret.entries)
            kept == IF n < 10 THEN n ELSE 10
        IN  /\ Cardinality({i \in 1 .. Len(insightsFile) :
                               insightsFile[i].kind = "header"}) = kept
            /\ insightsFile = JoinBlocks(SubSeq(ret.entries, 1, kept))

\* eleven writes, the first of a review unlike the second: ten blocks are
\* left and the first one written is gone
C15_Witness ==
    /\ ret.op = "writeInsights"
    /\ Len(ret.entries) = 11
    /\ ret.entries[11] # ret.entries[10]
    /\ insightsFile = JoinBlocks(SubSeq(ret.entries, 1, 10))
    /\ Len(insightsFile) < Len(JoinBlocks(ret.entries))


\* C16: assessDrift on "I replied to three emails and scheduled a meeting"
\* with goal categories [email, calendar] yields level none: both categories
\* are aligned, and the drift score 1 - (0.6*categoryRatio + 0.4*wordRatio),
\* from the three matched tokens out of the six tokens longer than two
\* characters, is below the 0.20 threshold.
C16_RepliedToMailIsNoDrift ==
    (/\ ret.op = "assessDrift"
     /\ ret.activitySummary = SummaryMail
     /\ ret.goalCategories = <<"email", "calendar">>) =>
        /\ ret.result.level = "none"
        /\ currentDriftLevel = "none"
        /\ ret.result.aligned_categories = <<"email", "calendar">>
        /\ Len(ret.result.activityWords) = 6
        /\ DoubleLess(ret.result.driftScore, NoneBelow)

\* the summary assessed against email and calendar, three of its six tokens
\* unmatched
C16_Witness ==
    /\ ret.op = "assessDrift"
    /\ ret.activitySummary = SummaryMail
    /\ ret.goalCategories = <<"email", "calendar">>
    /\ ret.result.level = "none"
    /\ Len(ret.result.unaligned_terms) = 2
    /\ DoubleLess(ret.result.driftScore, NoneBelow)
    /\ ~DoubleLess(ret.result.score, NoneBelow)

\* C17: for every summary with at least one token longer than two characters
\* and every non-empty list of goal categories, if no configured category is
\* aligned then assessDrift returns score 1 and level high, as for
\* "I browsed reddit threads about movies" against email, calendar,
\* productivity.
C17_NothingAlignedIsHighDrift ==
    (/\ ret.op = "assessDrift"
     /\ Len(tokenize(ret.activitySummary)) > 0
     /\ Len(ret.goalCategories) > 0
     /\ \A c \in 1 .. Len(ret.goalCategories) :
           \A w \in Range(tokenize(ret.activitySummary)) :
               ~WordInCategory(w, ret.goalCategories[c])) =>
        /\ ret.result.score = DoubleOne
        /\ ret.result.level = "high"
        /\ currentDriftLevel = "high"
        /\ (ret.activitySummary = SummaryReddit
                /\ ret.goalCategories = <<"email", "calendar", "productivity">>) =>
              ret.result.aligned_categories = <<>>

\* the reddit summary against the default goals: nothing aligned although
\* one of its words is a keyword of another category
C17_Witness ==
    /\ ret.op = "assessDrift"
    /\ ret.activitySummary = SummaryReddit
    /\ ret.goalCategories = <<"email", "calendar", "productivity">>
    /\ ret.result.aligned_categories = <<>>
    /\ \E w \in Range(ret.result.activityWords) : WordInCategory(w, "browsing")
    /\ ret.result.score = DoubleOne
    /\ ret.result.level = "high"


\* a review was produced by the last call
IsReview == ret.op = "carapace_review"

\* the rows of the session that the last review is about
ReviewedRows == SelectSeq(actions, LAMBDA r : r.session_id = ret.review.session_id)

\* C18: for every action history and every goal and constraint
\* configuration, each of goal_alignment, security_compliance and
\* constraint_adherence of the produced review lies in [0, 100], and so does
\* overall_score.
C18_ScoresWithinRange ==
    IsReview =>
        /\ ret.review.scores.goal_alignment \in 0 .. 100
        /\ ret.review.scores.security_compliance \in 0 .. 100
        /\ ret.review.scores.constraint_adherence \in 0 .. 100
        /\ ret.review.overall_score \in 0 .. 100

\* seven unverified tier-1 rows or more: the deductions exceed 100 and the
\* security score is 0
C18_Witness ==
    /\ IsReview
    /\ Cardinality({i \in 1 .. Len(ReviewedRows) :
                       ReviewedRows[i].tier = 1 /\ ReviewedRows[i].key_was_valid = 0}) >= 7
    /\ ret.review.scores.security_compliance = 0
    /\ ret.review.scores.goal_alignment = 100
    /\ ret.review.overall_score \in 1 .. 99

\* C19: in every produced review overall_score is
\* round(0.4*goal_alignment + 0.4*security_compliance + 0.2*constraint_adherence)
\* and overall_grade is A from 90, B from 80, C from 70, D from 60, else F; a
\* session of 10 actions of which 6 are goal-aligned, with security 100 and
\* adherence 100, gets goal_alignment 60, overall_score 84 and grade B.
C19_OverallScoreAndGrade ==
    IsReview =>
        LET s == ret.review.scores
            overall == ret.review.overall_score
            \* the weighted sum is a whole number of tenths: rounding it to the
            \* nearest integer, halves up, is adding a half and cutting
            rounded == (4 * s.goal_alignment + 4 * s.security_compliance
                            + 2 * s.constraint_adherence + 5) \div 10
        IN  /\ overall = rounded
            /\ ret.review.overall_grade =
                  (CASE overall >= 90 -> "A"
                     [] overall < 90 /\ overall >= 80 -> "B"
                     [] overall < 80 /\ overall >= 70 -> "C"
                     [] overall < 70 /\ overall >= 60 -> "D"
                     [] OTHER -> "F")
            /\ (/\ Len(ReviewedRows) = 10
                /\ s.security_compliance = 100
                /\ s.constraint_adherence = 100
                /\ Cardinality(AlignedRows(ReviewedRows, goalCategoriesOf(config))) = 6) =>
                  /\ s.goal_alignment = 60
                  /\ overall = 84
                  /\ ret.review.overall_grade = "B"

\* ten rows, six of them mails and four purchases, under the default goals
C19_Witness ==
    /\ IsReview
    /\ actions = MixTable(MailPass, 6, PurchasePass, 10)
    /\ config = DefaultConfig
    /\ ret.review.action_summary.total = 10
    /\ ret.review.scores = [goal_alignment |-> 60, security_compliance |-> 100,
                            constraint_adherence |-> 100]
    /\ ret.review.overall_score = 84
    /\ ret.review.overall_grade = "B"

\* the rows that retry the blocked row b: other rows of its action type, not
\* blocked, strictly after it and at most five minutes later
RetriesOf(rows, b) ==
    {a \in (1 .. Len(rows)) \ {b} :
        /\ rows[a].action_type = rows[b].action_type
        /\ rows[a].verdict # "block"
        /\ rows[a].timestamp > rows[b].timestamp
        /\ rows[a].timestamp <= rows[b].timestamp + 5 * 60 * 1000}

RetriedBlocks(rows) ==
    {b \in 1 .. Len(rows) : rows[b].verdict = "block" /\ RetriesOf(rows, b) # {}}

\* the deductions of security compliance other than those for retries
OtherDeductions(rows) ==
    15 * Cardinality({i \in 1 .. Len(rows) :
                         rows[i].tier = 1 /\ rows[i].key_was_valid = 0})
        + 5 * Cardinality({i \in 1 .. Len(rows) :
                              rows[i].tier = 2 /\ rows[i].key_was_valid = 0})

\* a blocked send_email and a passing send_email that follows it after gap
BlockedThenPassed(rows, gap) ==
    /\ Len(rows) = 2
    /\ rows[1].action_type = "send_email" /\ rows[1].verdict = "block"
    /\ rows[2].action_type = "send_email" /\ rows[2].verdict = "pass"
    /\ rows[2].timestamp - rows[1].timestamp = gap

HasRetriedInsight == \E i \in 1 .. Len(ret.review.insights) :
                         ret.review.insights[i].kind = "retried"

\* C20: security compliance deducts exactly 20 for a blocked action if and
\* only if the session holds a different action of the same action_type with
\* a non-blocked verdict whose timestamp is strictly after the blocked one
\* and at most 5 minutes later, once per blocked action however many such
\* retries exist; a blocked send_email followed by a passing send_email 3
\* minutes later deducts exactly 20 and emits the retried-without-approval
\* insight, and the same pair more than 5 minutes apart produces neither.
C20_RetryDeduction ==
    IsReview =>
        LET rows == ReviewedRows
            security == ret.review.scores.security_compliance
        IN  /\ security = Max(0, 100 - OtherDeductions(rows)
                                     - 20 * Cardinality(RetriedBlocks(rows)))
            /\ BlockedThenPassed(rows, 3 * 60 * 1000) =>
                  (security = 100 - OtherDeductions(rows) - 20 /\ HasRetriedInsight)
            /\ (\E gap \in Gaps : gap > 5 * 60 * 1000 /\ BlockedThenPassed(rows, gap)) =>
                  (security = 100 - OtherDeductions(rows) /\ ~HasRetriedInsight)

\* a blocked row with two retries inside the window, among rows without other
\* deductions: 20 off for each retried blocked row, not for each retry
C20_Witness ==
    /\ IsReview
    /\ \E b \in RetriedBlocks(ReviewedRows) :
          Cardinality(RetriesOf(ReviewedRows, b)) >= 2
    /\ OtherDeductions(ReviewedRows) = 0
    /\ ret.review.scores.security_compliance =
          100 - 20 * Cardinality(RetriedBlocks(ReviewedRows))
    /\ ret.review.scores.security_compliance > 0
    /\ HasRetriedInsight


\* the rows the running server process logged under its own session id
CurrentSessionRows == SelectSeq(actions, LAMBDA r : r.session_id = sessionStart)

\* C21: carapace_review called without session_id reviews the current
\* session: the actions scored are exactly those logged by the running server
\* process under its own session id, also when the current session has logged
\* no action yet and the store holds actions of earlier sessions.
C21_ReviewsCurrentSession ==
    (IsReview /\ ret.session_id = NoSession) =>
        /\ ReviewedRows = CurrentSessionRows
        /\ ret.review.action_summary.total = Len(CurrentSessionRows)


\* the level that the fixed thresholds give a score
LevelOfScore(score) ==
    IF DoubleLess(score, NoneBelow) THEN "none"
    ELSE IF DoubleLess(score, LowBelow) THEN "low"
    ELSE IF DoubleLess(score, MediumBelow) THEN "medium"
    ELSE "high"

\* C22: for every assessDrift result computed from at least one token, the
\* returned score lies in [0, 1] and the returned level is the threshold
\* mapping of the returned score (the score rounded to two decimals): none iff
\* score < 0.20, low iff 0.20 <= score < 0.40, medium iff 0.40 <= score < 0.70,
\* high iff score >= 0.70.
C22_LevelIsThresholdOfScore ==
    (ret.op = "assessDrift" /\ Len(ret.result.activityWords) > 0) =>
        /\ ~DoubleLess(ret.result.score, DoubleZero)
        /\ ~DoubleLess(DoubleOne, ret.result.score)
        /\ ret.result.level = LevelOfScore(ret.result.score)

\* C23: the drift level that status reports is last-write-wins: it is none
\* before the first assessDrift; a carapace_anchor call with a context summary
\* leaves the level its assessDrift returned (none for a summary without
\* tokens); every other tool call, carapace_anchor without a summary included,
\* leaves the level as it was; and carapace_status reports the level held
C23_DriftLevelLastWriteWins ==
    /\ currentDriftLevel = "none"
    /\ [][/\ IF ret'.op = "carapace_anchor" /\ ret'.context_summary # NoSummary
             THEN currentDriftLevel' = ret'.drift_assessment.level
             ELSE currentDriftLevel' = currentDriftLevel
          /\ ret'.op = "carapace_status" =>
                 ret'.anchor.drift_level = currentDriftLevel]_vars

\* status reports none after a summary without tokens replaced an earlier
\* medium level
C23_Witness ==
    /\ ret.op = "carapace_status"
    /\ ret.anchor.drift_level = "none"
    /\ Len(actions) = 2
    /\ actions[1].action_type = "anchor_refresh"
    /\ actions[1].description = AnchorDescription("medium", SummaryMail)
    /\ actions[2].action_type = "anchor_refresh"
    /\ actions[2].description = AnchorDescription("none", SummaryShort)

\* the constraints the reviewed server is configured with
ConfiguredConstraints == ConfigGet(config, "constraints", <<>>)

\* C24: constraint adherence is max(0, 100 - 25 * k), k being the number of
\* reviewed actions that are blocked and whose type and description share a
\* token with the keywords, longer than three characters, of some constraint;
\* an action counts once however many constraints it overlaps, and the score
\* is 100 without a constraint and without a blocked action
C24_ConstraintAdherence ==
    IsReview =>
        \A keywords \in {UNION {ConstraintKeywords(ConfiguredConstraints[c]) :
                                   c \in 1 .. Len(ConfiguredConstraints)}} :
            LET k == Cardinality({i \in 1 .. Len(ReviewedRows) :
                        /\ ReviewedRows[i].verdict = "block"
                        /\ Range(tokenize(RowText(ReviewedRows[i]))) \cap keywords # {}})
                blocked == {i \in 1 .. Len(ReviewedRows) :
                               ReviewedRows[i].verdict = "block"}
            IN  /\ ret.review.scores.constraint_adherence = Max(0, 100 - 25 * k)
                /\ (Len(ConfiguredConstraints) = 0 \/ blocked = {}) =>
                       ret.review.scores.constraint_adherence = 100

\* one blocked mail about gifts under two constraints that both name gifts
\* costs 25 points, not 50
C24_Witness ==
    /\ IsReview
    /\ Len(ConfiguredConstraints) = 2
    /\ Len(ReviewedRows) = 1
    /\ ReviewedRows[1].verdict = "block"
    /\ ReviewedRows[1].description = Gifts
    /\ ret.review.scores.constraint_adherence = 75

NewestWindow == WindowIndexAt(actions[Len(actions)].timestamp)

\* C26: token issuance does not depend on the verdict: every carapace_verify
\* response, a blocked one and one whose current_key was missing or invalid
\* included, carries the key of the window of the call, and carapace_log
\* finds that key valid in the same window and in the next one
C26_KeyIssuedWhateverVerdict ==
    /\ ret.op = "carapace_verify" =>
           /\ ret.verification_key # NoKey
           /\ ret.verification_key = computeKey(NewestWindow)
           /\ agentKey.key = ret.verification_key
    /\ (/\ ret.op = "carapace_log"
        /\ agentKey # NoIssue
        /\ ret.verification_key = agentKey.key
        /\ NewestWindow \in {agentKey.window, agentKey.window + 1}) =>
           /\ ret.keyValid
           /\ actions[Len(actions)].key_was_valid = 1

\* the key of a blocked verification made without a key is accepted by the
\* log call of the next window
C26_Witness ==
    /\ ret.op = "carapace_log"
    /\ ret.keyValid
    /\ ret.verification_key = agentKey.key
    /\ Len(actions) = 2
    /\ NewestWindow = agentKey.window + 1
    /\ actions[1].verdict = "block"
    /\ actions[1].key_was_valid = 0
    /\ actions[1].tier = 0

\* the reasons with which the built-in rules block
BuiltInBlockKinds ==
    {"per_action_limit", "daily_limit", "contact_not_allowed", "contact_blocked",
     "domain_not_allowed", "domain_blocked", "action_disabled"}

C28_VerifiedSpendWithinDailyLimit ==
    /\ [](dailySpendUsed <= config.daily)
    /\ [][/\ ret'.op = "carapace_verify" => dailySpendUsed' = dailySpendUsed
          /\ dailySpendUsed' # dailySpendUsed =>
                 /\ ret'.op = "carapace_log"
                 /\ ret'.amount > 0
                 /\ dailySpendUsed' = dailySpendUsed + ret'.amount]_vars

\* the daily limit is used up to the last dollar by verified purchases, and
\* the next purchase is blocked
C28_Witness ==
    /\ dailySpendUsed = config.daily
    /\ ret.op = "carapace_verify"
    /\ ret.action.amount = 10
    /\ ret.verdict = "block"
    /\ Len(actions) = 5
    /\ actions[2].tier = 1 /\ actions[2].amount = 30
    /\ actions[4].tier = 1 /\ actions[4].amount = 10

\* C29: the two detectors of a retry after a block agree on every action
\* list: the review carries the retried-without-approval insight if and only
\* if security compliance takes the 20 points of a retry off for at least one
\* blocked action of the list
C29_RetryDetectorsAgree ==
    IsReview =>
        \A rows \in {getActionsBySession(actions, db, ret.review.session_id)} :
            LET deducted == {b \in 1 .. Len(rows) :
                                rows[b].verdict = "block" /\ Retried(rows, b)}
            IN  /\ HasRetriedInsight <=> deducted # {}
                /\ ret.review.scores.security_compliance =
                       Max(0, 100 - OtherDeductions(rows) - 20 * Cardinality(deducted))

\* a passing mail exactly five minutes after a blocked one: the last instant
\* at which both detectors fire
C29_Witness ==
    /\ IsReview
    /\ BlockedThenPassed(ReviewedRows, RetryWindowMs)
    /\ HasRetriedInsight
    /\ ret.review.scores.security_compliance = 80

\* the kinds of the insights of the review, in their order
InsightKinds == [i \in 1 .. Len(ret.review.insights) |-> ret.review.insights[i].kind]

\* C30: the positive affirmation is emitted exactly when goal alignment,
\* security compliance and constraint adherence are all above 85, and then it
\* is the only insight of the review: the drift insight, the
\* unverified-actions insight and the retried-without-approval insight are
\* absent
C30_AffirmationStandsAlone ==
    IsReview =>
        /\ "strong" \in Range(InsightKinds) <=>
               /\ ret.review.scores.goal_alignment > 85
               /\ ret.review.scores.security_compliance > 85
               /\ ret.review.scores.constraint_adherence > 85
        /\ "strong" \in Range(InsightKinds) => InsightKinds = <<"strong">>

\* a session with an unverified tier-2 visit: security compliance is 95 and
\* the affirmation is the only insight
C30_Witness ==
    /\ IsReview
    /\ InsightKinds = <<"strong">>
    /\ ret.review.scores.security_compliance \in {90, 95}
    /\ \E i \in 1 .. Len(ReviewedRows) :
          ReviewedRows[i].tier = 2 /\ ReviewedRows[i].key_was_valid = 0

====
